---------------------------- MODULE Spec2Model ----------------------------
(***************************************************************************)
(* Customer segmentation and RFM scoring of the e-commerce analytics       *)
(* pipeline (03_repeat_vs_onetime_buyers.py).                              *)
(*                                                                         *)
(* Spec    the script run top to bottom on a cleaned transaction table,    *)
(*         and the dashboard's load_customer_data reading its files back   *)
(* SpecFn  the script's pure functions (classify_customer, the binary      *)
(*         CustomerType, rank+qcut scoring, categorize_rfm) applied to     *)
(*         inputs drawn from bounded sets                                  *)
(* SpecRun the orchestrator run_all_analysis.py starting the three stage   *)
(*         scripts one after the other; SpecRunFair adds its progress      *)
(* SpecClean the cleaning script 01_data_cleaning.py on a raw export       *)
(* SpecDash  one run of the dashboard's main: both loaders, then the page, *)
(*         while or after the script writes its files                      *)
(* SpecOrder Steps 1, 2 and 6 of the script on two orderings of one table  *)
(*                                                                         *)
(* Money is counted in whole cents and time in ticks (TicksPerDay ticks    *)
(* to a day), so sums and whole-day differences are exact integers.        *)
(***************************************************************************)
EXTENDS Integers, Sequences, FiniteSets, TLC

VARIABLES
    pc,                 \* position of the script: the step about to run
    cleaned_parquet,    \* cleaned_ecommerce_data.parquet on disk
    df,                 \* the transaction table in memory
    customer_orders,    \* one row per customer; columns are added step by step
    segment_counts,     \* CustomerSegment value counts, sorted by label
    revenue_by_segment, \* Step 3 table
    binary_comparison,  \* Step 4 table
    analysis_date,      \* Step 6 reference date
    rfm_summary,        \* Step 6 table
    df_with_first,      \* Step 8: df with FirstPurchaseDate, IsFirstPurchase, BuyerType
    monthly_trend,      \* Step 8 table
    files,              \* output files written so far: name -> content
    error,              \* the exception that ended the run, "" if none
    arg,                \* SpecFn: the input of the function under check
    ret,                \* SpecFn: its result
    customer_data,      \* dashboard: what load_customer_data returned
    run_pc,             \* SpecRun: position of the orchestrator
    script_index,       \* SpecRun: the loop counter i of main
    results,            \* SpecRun: main's list of (script, success)
    user_input,         \* SpecRun: the last answer to the continue prompt
    printed,            \* SpecRun: what the orchestrator has printed so far
    exit_status,        \* SpecRun: exit status of the orchestrator process
    clean_pc,           \* SpecClean: position of the cleaning script
    raw_csv,            \* SpecClean: 'online_retail_II UCI.csv' on disk
    df_clean,           \* SpecClean: the table being cleaned
    dash_pc,            \* SpecDash: position of the dashboard's main
    page,               \* SpecDash: the page selected in the sidebar
    cohort_files,       \* SpecDash: the cohort files that can be read
    cohort_data,        \* SpecDash: what load_cohort_data returned
    shown               \* SpecDash: what main has put on the screen

vars == <<pc, cleaned_parquet, df, customer_orders, segment_counts,
          revenue_by_segment, binary_comparison, analysis_date, rfm_summary,
          df_with_first, monthly_trend, files, error, arg, ret, customer_data,
          run_pc, script_index, results, user_input, printed, exit_status,
          clean_pc, raw_csv, df_clean,
          dash_pc, page, cohort_files, cohort_data, shown>>

scriptVars == <<pc, cleaned_parquet, df, customer_orders, segment_counts,
                revenue_by_segment, binary_comparison, analysis_date,
                rfm_summary, df_with_first, monthly_trend, files, error>>

dashVars == <<customer_data>>

mainVars == <<dash_pc, page, cohort_files, cohort_data, shown>>

cleanVars == <<clean_pc, raw_csv, df_clean>>

runVars == <<run_pc, script_index, results, user_input, printed, exit_status>>

fnVars == <<arg, ret>>

-----------------------------------------------------------------------------
(* Bounds and input domains *)

\* rows of a detailed input table
MaxRows == 3
\* customers of an input table with one line item per customer
MaxCust == 5
\* length of a column handed to the scoring function in SpecFn
MaxPop == 8
\* largest order count handed to classify_customer in SpecFn
MaxOrderCount == 16

\* rows of the raw export handed to the cleaning script
MaxRawRows == 3

\* ticks in a day: what Timedelta.days and Timestamp.date round down to
TicksPerDay == 2
\* days in a calendar month: what dt.to_period('M') rounds down to
DaysPerMonth == 2

\* pd.NaT / NaN: max() of an empty column, a quantile of an empty column
NaT == -1

\* q of pd.qcut
Q == 5

\* exit status of a process that has not exited
NoExit == -1

\* customers, invoices per customer, timestamps and line totals of the
\* detailed input tables: ticks 0 and 1 fall on the same day, tick 5 on a
\* day of the next month
DetailCustomers == 1..2
InvoicesPerCustomer == 1..2
Timestamps == {0, 1, 5}
Amounts == {1, 2}
\* timestamps of the one-line-per-customer tables
WideTimestamps == {0, 5}
\* values of a column scored in SpecFn
ColumnValues == 0..2

InvoiceOf(c, k) == <<c, k>>

-----------------------------------------------------------------------------
(* Generic helpers *)

Range(s) == {s[i] : i \in DOMAIN s}

MinOf(S) == CHOOSE x \in S : \A y \in S : x <= y
MaxOf(S) == CHOOSE x \in S : \A y \in S : x >= y

RECURSIVE SumSeq(_)
SumSeq(s) == IF s = <<>> THEN 0 ELSE s[1] + SumSeq(Tail(s))

RECURSIVE SortedSeqOfSet(_)
SortedSeqOfSet(S) ==
    IF S = {} THEN <<>>
    ELSE LET m == MinOf(S) IN <<m>> \o SortedSeqOfSet(S \ {m})

Column(tbl, name) == [i \in DOMAIN tbl |-> tbl[i][name]]

AddColumn(tbl, name, col) == [i \in DOMAIN tbl |-> tbl[i] @@ (name :> col[i])]

\* a / b rounded to the nearest integer, halves to the even neighbour
\* (numpy's round), for a >= 0 and b > 0
RoundDiv(a, b) ==
    LET q == a \div b
        r2 == 2 * (a % b)
    IN IF r2 < b THEN q
       ELSE IF r2 > b THEN q + 1
       ELSE IF q % 2 = 0 THEN q ELSE q + 1


\* fractions num/den, for the means the script keeps as floats
Frac(n, d) == [num |-> n, den |-> d]

RECURSIVE FracSum(_)
FracSum(s) ==
    IF s = <<>> THEN Frac(0, 1)
    ELSE LET a == s[1]
             b == FracSum(Tail(s))
         IN Frac(a.num * b.den + b.num * a.den, a.den * b.den)

-----------------------------------------------------------------------------
(* Input tables: what 01_data_cleaning.py leaves in the parquet file.       *)
(* Rows are sorted by (Customer ID, InvoiceDate) and no row occurs twice.   *)

Row(c, k, d, a) ==
    [Customer_ID |-> c, Invoice |-> InvoiceOf(c, k), InvoiceDate |-> d,
     TotalAmount |-> a]

DetailRows ==
    {Row(c, k, d, a) : c \in DetailCustomers, k \in InvoicesPerCustomer,
                       d \in Timestamps, a \in Amounts}

CanFollow(t, r) ==
    \/ t = <<>>
    \/ /\ r \notin Range(t)
       /\ LET l == t[Len(t)]
          IN \/ l.Customer_ID < r.Customer_ID
             \/ l.Customer_ID = r.Customer_ID /\ l.InvoiceDate <= r.InvoiceDate

RECURSIVE SortedTables(_, _)
SortedTables(U, n) ==
    IF n = 0 THEN {<<>>}
    ELSE LET prev == SortedTables(U, n - 1)
         IN prev \cup
            {Append(p[1], p[2]) :
                p \in {x \in prev \X U : Len(x[1]) = n - 1 /\ CanFollow(x[1], x[2])}}

DetailTables == SortedTables(DetailRows, MaxRows)

WideTables ==
    UNION {{[c \in 1..n |-> Row(c, 1, f[c][1], f[c][2])] :
                f \in [1..n -> WideTimestamps \X Amounts]} : n \in 1..MaxCust}

CleanedTables == DetailTables \cup WideTables

-----------------------------------------------------------------------------
(* Step 1: customer aggregates *)

CustomerIds(t) == {t[i].Customer_ID : i \in DOMAIN t}

TransactionsOf(t, c) == SelectSeq(t, LAMBDA r : r.Customer_ID = c)

\* the aggregate with orders counted as line items (count for nunique)
AggregateRowCountOrders(c, T) ==
    [Customer_ID         |-> c,
     OrderCount          |-> Len(T),
     FirstPurchase       |-> MinOf({T[i].InvoiceDate : i \in DOMAIN T}),
     LastPurchase        |-> MaxOf({T[i].InvoiceDate : i \in DOMAIN T}),
     TotalRevenue        |-> SumSeq(Column(T, "TotalAmount")),
     AvgTransactionValue |-> Frac(SumSeq(Column(T, "TotalAmount")), Len(T)),
     TotalTransactions   |-> Len(T)]

\* the aggregate with the min and max of InvoiceDate taken in the other order
AggregateRowSwapped(c, T) ==
    [Customer_ID         |-> c,
     OrderCount          |-> Cardinality({T[i].Invoice : i \in DOMAIN T}),
     FirstPurchase       |-> MaxOf({T[i].InvoiceDate : i \in DOMAIN T}),
     LastPurchase        |-> MinOf({T[i].InvoiceDate : i \in DOMAIN T}),
     TotalRevenue        |-> SumSeq(Column(T, "TotalAmount")),
     AvgTransactionValue |-> Frac(SumSeq(Column(T, "TotalAmount")), Len(T)),
     TotalTransactions   |-> Len(T)]

\* the agg dictionary: Invoice nunique, InvoiceDate min and max,
\* TotalAmount sum, mean and count
AggregateRow(c, T) ==
    [Customer_ID         |-> c,
     OrderCount          |-> Cardinality({T[i].Invoice : i \in DOMAIN T}),
     FirstPurchase       |-> MinOf({T[i].InvoiceDate : i \in DOMAIN T}),
     LastPurchase        |-> MaxOf({T[i].InvoiceDate : i \in DOMAIN T}),
     TotalRevenue        |-> SumSeq(Column(T, "TotalAmount")),
     AvgTransactionValue |-> Frac(SumSeq(Column(T, "TotalAmount")), Len(T)),
     TotalTransactions   |-> Len(T)]

\* the aggregates broadcast to every transaction row (a transform rather
\* than an aggregation): one row per transaction
GroupByEveryRow(t) ==
    [k \in DOMAIN t |-> AggregateRow(t[k].Customer_ID, TransactionsOf(t, t[k].Customer_ID))]

\* groupby('Customer ID', sort=False): the groups in order of first
\* appearance in the table
GroupByCustomerUnsorted(t) ==
    LET firsts == SortedSeqOfSet({i \in DOMAIN t :
                     \A j \in 1..(i - 1) : t[j].Customer_ID # t[i].Customer_ID})
    IN [k \in 1..Len(firsts) |->
          AggregateRow(t[firsts[k]].Customer_ID,
                       TransactionsOf(t, t[firsts[k]].Customer_ID))]

\* groupby('Customer ID') sorts the group keys
GroupByCustomer(t) ==
    LET ids == SortedSeqOfSet(CustomerIds(t))
    IN [k \in 1..Len(ids) |-> AggregateRow(ids[k], TransactionsOf(t, ids[k]))]

-----------------------------------------------------------------------------
(* Step 2: segments *)

OneTime    == "One-Time Buyer"
TwoTime    == "Two-Time Buyer"
Occasional == "Occasional Buyer (3-5 orders)"
Regular    == "Regular Buyer (6-10 orders)"
Loyal      == "Loyal Customer (10+ orders)"
Repeat     == "Repeat Buyer"

\* the segment labels in index (alphabetical) order
SegmentOrder == <<Loyal, Occasional, OneTime, Regular, TwoTime>>
TypeOrder == <<OneTime, Repeat>>

\* classify_customer with the Occasional bucket closed one order too early
classify_customer_lt5(order_count) ==
    IF order_count = 1 THEN OneTime
    ELSE IF order_count = 2 THEN TwoTime
    ELSE IF order_count < 5 THEN Occasional
    ELSE IF order_count <= 10 THEN Regular
    ELSE Loyal

classify_customer(order_count) ==
    IF order_count = 1 THEN OneTime
    ELSE IF order_count = 2 THEN TwoTime
    ELSE IF order_count <= 5 THEN Occasional
    ELSE IF order_count <= 10 THEN Regular
    ELSE Loyal

\* the binary type taken from the segment: two-time buyers counted one-time
CustomerTypeOf_le2(x) == IF x <= 2 THEN OneTime ELSE Repeat

CustomerTypeOf(x) == IF x = 1 THEN OneTime ELSE Repeat

\* the keys of a column that occur in it, in index order
PresentKeys(tbl, name, order) ==
    SelectSeq(order, LAMBDA k : \E i \in DOMAIN tbl : tbl[i][name] = k)

RowsWith(tbl, name, k) == SelectSeq(tbl, LAMBDA r : r[name] = k)

\* value_counts().sort_index()
ValueCounts(tbl, name, order) ==
    LET keys == PresentKeys(tbl, name, order)
    IN [j \in 1..Len(keys) |->
          [Segment |-> keys[j], count |-> Len(RowsWith(tbl, name, keys[j]))]]

-----------------------------------------------------------------------------
(* Steps 3 and 4: revenue by segment, one-time against repeat buyers.      *)
(* Percentages are kept in hundredths of a percent, averages of order      *)
(* counts in hundredths, money in cents: round(2) leaves the sums alone.   *)

RevenueBySegment(co) ==
    LET keys == PresentKeys(co, "CustomerSegment", SegmentOrder)
        rev(k) == SumSeq(Column(RowsWith(co, "CustomerSegment", k), "TotalRevenue"))
        cnt(k) == Len(RowsWith(co, "CustomerSegment", k))
        total == SumSeq([j \in 1..Len(keys) |-> rev(keys[j])])
    IN [j \in 1..Len(keys) |->
          [CustomerSegment       |-> keys[j],
           TotalRevenue          |-> rev(keys[j]),
           AvgRevenuePerCustomer |-> RoundDiv(rev(keys[j]), cnt(keys[j])),
           CustomerCount         |-> cnt(keys[j]),
           RevenueShare          |-> RoundDiv(rev(keys[j]) * 10000, total)]]

BinaryComparison(co) ==
    LET keys == PresentKeys(co, "CustomerType", TypeOrder)
        grp(k) == RowsWith(co, "CustomerType", k)
        rev(k) == SumSeq(Column(grp(k), "TotalRevenue"))
        cnt(k) == Len(grp(k))
        avgtv(k) == FracSum(Column(grp(k), "AvgTransactionValue"))
        totalCnt == SumSeq([j \in 1..Len(keys) |-> cnt(keys[j])])
        totalRev == SumSeq([j \in 1..Len(keys) |-> rev(keys[j])])
    IN [j \in 1..Len(keys) |->
          [CustomerType          |-> keys[j],
           CustomerCount         |-> cnt(keys[j]),
           TotalRevenue          |-> rev(keys[j]),
           AvgRevenuePerCustomer |-> RoundDiv(rev(keys[j]), cnt(keys[j])),
           AvgOrdersPerCustomer  |->
               RoundDiv(100 * SumSeq(Column(grp(keys[j]), "OrderCount")), cnt(keys[j])),
           AvgTransactionValue   |->
               RoundDiv(avgtv(keys[j]).num, avgtv(keys[j]).den * cnt(keys[j])),
           CustomerPct           |-> RoundDiv(cnt(keys[j]) * 10000, totalCnt),
           RevenuePct            |-> RoundDiv(rev(keys[j]) * 10000, totalRev)]]

-----------------------------------------------------------------------------
(* Steps 5 and 6: lifetime, recency, rank-based quantile scores *)

\* Timedelta.days: whole days of a non-negative difference of timestamps
WholeDays(delta) == delta \div TicksPerDay

\* the analysis date taken from the clock: some day after the last transaction
ClockNow(t) == MaxOf(Timestamps) + 2 * TicksPerDay

\* Series.max() of the InvoiceDate column
MaxInvoiceDate(t) ==
    IF t = <<>> THEN NaT ELSE MaxOf({t[i].InvoiceDate : i \in DOMAIN t})

\* Series.rank(method='first'): ascending, equal values ranked in row order
RankFirst(x) ==
    [i \in DOMAIN x |->
        1 + Cardinality({j \in DOMAIN x : x[j] < x[i] \/ (x[j] = x[i] /\ j < i)})]

RECURSIVE SortValues(_)
SortValues(x) ==
    IF x = <<>> THEN <<>>
    ELSE LET m == MinOf(Range(x))
             i == CHOOSE j \in DOMAIN x : x[j] = m
         IN <<m>> \o SortValues(SubSeq(x, 1, i - 1) \o SubSeq(x, i + 1, Len(x)))

\* quantile k / Q of the sorted values s with linear interpolation, times Q:
\* a bin edge of qcut, kept an integer. NaT (NaN) on an empty column.
QuantileTimesQ(s, k) ==
    IF s = <<>> THEN NaT
    ELSE LET pos == k * (Len(s) - 1)
             lo == pos \div Q + 1
             hi == IF lo < Len(s) THEN lo + 1 ELSE lo
         IN Q * s[lo] + (pos % Q) * (s[hi] - s[lo])

BinEdges(x) ==
    LET s == SortValues(x)
    IN [k \in 0..Q |-> QuantileTimesQ(s, k)]

\* duplicates='raise'
QcutRaises(x) ==
    LET bins == BinEdges(x)
    IN \E j, k \in 0..Q : j # k /\ bins[j] = bins[k]

\* _bins_to_cuts with right=True, include_lowest=True: the number of the
\* bin (lo, hi] that holds v, the lowest edge itself counted into bin 1
BinOf(bins, v) ==
    IF Q * v = bins[0] THEN 1
    ELSE Cardinality({k \in 0..Q : bins[k] < Q * v})

\* pd.qcut(x, q=5, labels=labels): the label of each value's bin
Qcut(x, labels) ==
    LET bins == BinEdges(x)
    IN [i \in DOMAIN x |-> labels[BinOf(bins, x[i])]]

BinEdgesError == "ValueError: Bin edges must be unique"

\* recency scored like frequency: the oldest customers get the top score
RecencyLabelsAscending == <<1, 2, 3, 4, 5>>

\* frequency and monetary value scored like recency: the smallest get 5
AscendingLabelsReversed == <<5, 4, 3, 2, 1>>

RecencyLabels == <<5, 4, 3, 2, 1>>
AscendingLabels == <<1, 2, 3, 4, 5>>

\* the score column cut from the values themselves, without the ranking
ScoreColumnUnranked(x, labels) == Qcut(x, labels)

\* the score column of one RFM dimension
ScoreColumn(x, labels) == Qcut(RankFirst(x), labels)

Champions          == "Champions"
LoyalCustomers     == "Loyal Customers"
PotentialLoyalists == "Potential Loyalists"
AtRisk             == "At Risk"
Lost               == "Lost"

RfmSegments == {Champions, LoyalCustomers, PotentialLoyalists, AtRisk, Lost}

\* categorize_rfm with the recency rules tried before the value rules
categorize_rfm_recency_first(row) ==
    IF row.R_Score >= 4 THEN PotentialLoyalists
    ELSE IF row.R_Score >= 3 THEN AtRisk
    ELSE IF row.F_Score >= 4 /\ row.M_Score >= 4 THEN Champions
    ELSE IF row.F_Score >= 3 /\ row.M_Score >= 3 THEN LoyalCustomers
    ELSE Lost

categorize_rfm(row) ==
    IF row.F_Score >= 4 /\ row.M_Score >= 4 THEN Champions
    ELSE IF row.F_Score >= 3 /\ row.M_Score >= 3 THEN LoyalCustomers
    ELSE IF row.R_Score >= 4 THEN PotentialLoyalists
    ELSE IF row.R_Score >= 3 THEN AtRisk
    ELSE Lost

\* groupby('RFM_Segment') count and revenue; the order of its rows (by
\* revenue, for printing) is not kept
RfmSummary(co) ==
    {[RFM_Segment  |-> g,
      Customer_ID  |-> Len(RowsWith(co, "RFM_Segment", g)),
      TotalRevenue |-> SumSeq(Column(RowsWith(co, "RFM_Segment", g), "TotalRevenue"))] :
        g \in {co[i].RFM_Segment : i \in DOMAIN co}}

-----------------------------------------------------------------------------
(* Step 7: exports *)

\* Timestamp.date: the calendar day of a timestamp
DateOf(ts) == ts \div TicksPerDay

\* the purchase dates reduced to their month (to_period('M') for .date)
CustomerOrdersExportMonths(co) ==
    [i \in DOMAIN co |->
        [co[i] EXCEPT !.FirstPurchase = @ \div (TicksPerDay * DaysPerMonth),
                      !.LastPurchase = @ \div (TicksPerDay * DaysPerMonth)]]

\* customer_orders.copy() with FirstPurchase and LastPurchase as .dt.date
CustomerOrdersExport(co) ==
    [i \in DOMAIN co |->
        [co[i] EXCEPT !.FirstPurchase = DateOf(@), !.LastPurchase = DateOf(@)]]

\* the segment revenue as the mean per customer (mean for sum)
SegmentRevenueMean(co) ==
    LET keys == PresentKeys(co, "CustomerSegment", SegmentOrder)
    IN [j \in 1..Len(keys) |->
          [Segment      |-> keys[j],
           TotalRevenue |->
               RoundDiv(SumSeq(Column(RowsWith(co, "CustomerSegment", keys[j]), "TotalRevenue")),
                        Len(RowsWith(co, "CustomerSegment", keys[j])))]]

SegmentRevenue(co) ==
    LET keys == PresentKeys(co, "CustomerSegment", SegmentOrder)
    IN [j \in 1..Len(keys) |->
          [Segment      |-> keys[j],
           TotalRevenue |->
               SumSeq(Column(RowsWith(co, "CustomerSegment", keys[j]), "TotalRevenue"))]]

\* DataFrame.merge(on='Segment'): the inner join, in the left table's order
MergeOnSegment(left, right) ==
    LET hit == SelectSeq(left, LAMBDA l : \E j \in DOMAIN right : right[j].Segment = l.Segment)
    IN [i \in 1..Len(hit) |->
          LET r == right[CHOOSE j \in DOMAIN right : right[j].Segment = hit[i].Segment]
          IN hit[i] @@ [TotalRevenue |-> r.TotalRevenue]]

SegmentSummary(sc, co) ==
    LET totalCnt == SumSeq(Column(sc, "count"))
        base == [i \in DOMAIN sc |->
                    [Segment       |-> sc[i].Segment,
                     CustomerCount |-> sc[i].count,
                     CustomerPct   |-> RoundDiv(sc[i].count * 10000, totalCnt)]]
        merged == MergeOnSegment(base, SegmentRevenue(co))
        totalRev == SumSeq(Column(merged, "TotalRevenue"))
    IN AddColumn(merged, "RevenuePct",
                 [i \in DOMAIN merged |-> RoundDiv(merged[i].TotalRevenue * 10000, totalRev)])

RfmExportColumns ==
    {"Customer_ID", "OrderCount", "TotalRevenue", "Recency_Days", "R_Score",
     "F_Score", "M_Score", "RFM_Score", "RFM_Segment"}

RfmExport(co) == [i \in DOMAIN co |-> [c \in RfmExportColumns |-> co[i][c]]]

-----------------------------------------------------------------------------
(* Step 8: monthly trend of new against repeat buyers *)

NewCustomer    == "New Customer"
RepeatCustomer == "Repeat Customer"
BuyerTypeOrder == <<NewCustomer, RepeatCustomer>>

\* dt.to_period('M'): the calendar month of a timestamp
PeriodM(ts) == ts \div (TicksPerDay * DaysPerMonth)

FirstPurchaseDate(t, c) ==
    MinOf({t[i].InvoiceDate : i \in {j \in DOMAIN t : t[j].Customer_ID = c}})

\* new by invoice: every line of the customer's first invoice is New,
\* whatever its timestamp
BuyerTypeFirstInvoice(t, r) ==
    LET first == CHOOSE i \in DOMAIN t :
                    /\ t[i].Customer_ID = r.Customer_ID
                    /\ \A j \in 1..(i - 1) : t[j].Customer_ID # r.Customer_ID
    IN IF r.Invoice = t[first].Invoice THEN NewCustomer ELSE RepeatCustomer

\* new to the month: the customer's earliest transaction of each calendar
\* month is New
BuyerTypeFirstInMonth(t, r) ==
    IF r.InvoiceDate
         = MinOf({t[i].InvoiceDate :
                    i \in {j \in DOMAIN t :
                             /\ t[j].Customer_ID = r.Customer_ID
                             /\ t[j].InvoiceDate \div (TicksPerDay * DaysPerMonth)
                                  = r.InvoiceDate \div (TicksPerDay * DaysPerMonth)}})
    THEN NewCustomer ELSE RepeatCustomer

BuyerType(t, r) ==
    IF r.InvoiceDate = FirstPurchaseDate(t, r.Customer_ID)
    THEN NewCustomer ELSE RepeatCustomer

\* df.merge(first_purchase, on='Customer ID') keeps the rows of df in their
\* order; IsFirstPurchase and BuyerType are added row by row
DfWithFirst(t) ==
    [i \in DOMAIN t |->
        t[i] @@ [FirstPurchaseDate |-> FirstPurchaseDate(t, t[i].Customer_ID),
                 IsFirstPurchase   |-> BuyerType(t, t[i]) = NewCustomer,
                 BuyerType         |-> BuyerType(t, t[i])]]

\* Orders as the number of transaction lines ('count' instead of 'nunique')
MonthlyTrendCountOrders(t) ==
    LET months == SortedSeqOfSet({PeriodM(t[i].InvoiceDate) : i \in DOMAIN t})
        grp(m, b) == SelectSeq(t, LAMBDA r : PeriodM(r.InvoiceDate) = m /\ BuyerType(t, r) = b)
        keys == SelectSeq(
                    [n \in 1..(2 * Len(months)) |->
                        <<months[(n + 1) \div 2], BuyerTypeOrder[2 - (n % 2)]>>],
                    LAMBDA k : grp(k[1], k[2]) # <<>>)
    IN [j \in 1..Len(keys) |->
          LET g == grp(keys[j][1], keys[j][2])
          IN [YearMonth       |-> keys[j][1],
              BuyerType       |-> keys[j][2],
              UniqueCustomers |-> Cardinality({g[i].Customer_ID : i \in DOMAIN g}),
              Revenue         |-> SumSeq(Column(g, "TotalAmount")),
              Orders          |-> Len(g)]]

MonthlyTrend(t) ==
    LET months == SortedSeqOfSet({PeriodM(t[i].InvoiceDate) : i \in DOMAIN t})
        grp(m, b) == SelectSeq(t, LAMBDA r : PeriodM(r.InvoiceDate) = m /\ BuyerType(t, r) = b)
        keys == SelectSeq(
                    [n \in 1..(2 * Len(months)) |->
                        <<months[(n + 1) \div 2], BuyerTypeOrder[2 - (n % 2)]>>],
                    LAMBDA k : grp(k[1], k[2]) # <<>>)
    IN [j \in 1..Len(keys) |->
          LET g == grp(keys[j][1], keys[j][2])
          IN [YearMonth       |-> keys[j][1],
              BuyerType       |-> keys[j][2],
              UniqueCustomers |-> Cardinality({g[i].Customer_ID : i \in DOMAIN g}),
              Revenue         |-> SumSeq(Column(g, "TotalAmount")),
              Orders          |-> Cardinality({g[i].Invoice : i \in DOMAIN g})]]

\* DataFrame.pivot: one row per month, one cell per (value, buyer type) that
\* occurs in the trend table, NaT (NaN) where the month has no such row
MonthlyPivot(mt) ==
    LET months == SortedSeqOfSet({mt[i].YearMonth : i \in DOMAIN mt})
        types == {mt[i].BuyerType : i \in DOMAIN mt}
        cell(m, b, v) ==
            IF \E i \in DOMAIN mt : mt[i].YearMonth = m /\ mt[i].BuyerType = b
            THEN mt[CHOOSE i \in DOMAIN mt : mt[i].YearMonth = m /\ mt[i].BuyerType = b][v]
            ELSE NaT
    IN [j \in 1..Len(months) |->
          [YearMonth |-> months[j],
           cells     |-> [c \in {"UniqueCustomers", "Revenue", "Orders"} \X types |->
                            cell(months[j], c[2], c[1])]]]

-----------------------------------------------------------------------------
(* Step 9: key metrics *)

SummaryMetrics(co) ==
    LET one_time == RowsWith(co, "CustomerType", OneTime)
        repeat == RowsWith(co, "CustomerType", Repeat)
    IN [TotalCustomers     |-> Len(co),
        OneTimeBuyers      |-> Len(one_time),
        RepeatBuyers       |-> Len(repeat),
        OneTimePct         |-> RoundDiv(Len(one_time) * 10000, Len(co)),
        RepeatPct          |-> RoundDiv(Len(repeat) * 10000, Len(co)),
        RevenueFromOneTime |-> SumSeq(Column(one_time, "TotalRevenue")),
        RevenueFromRepeat  |-> SumSeq(Column(repeat, "TotalRevenue"))]

-----------------------------------------------------------------------------
(* The script, step by step *)

NoTable == <<>>
NoFiles == <<>>

\* the dashboard has not called load_customer_data
NotLoaded == [status |-> "not loaded"]

\* the cleaning script is not part of the run
CleanIdle ==
    /\ clean_pc = "idle"
    /\ raw_csv = NoTable
    /\ df_clean = NoTable

\* the dashboard's main is not part of the run
MainIdle ==
    /\ dash_pc = "idle"
    /\ page = ""
    /\ cohort_files = {}
    /\ cohort_data = NotLoaded
    /\ shown = <<>>

\* the orchestrator is not part of the run
RunIdle ==
    /\ run_pc = "idle"
    /\ script_index = 0
    /\ results = <<>>
    /\ user_input = ""
    /\ printed = <<>>
    /\ exit_status = NoExit

Init ==
    /\ pc = "load"
    /\ cleaned_parquet \in CleanedTables
    /\ df = NoTable
    /\ customer_orders = NoTable
    /\ segment_counts = NoTable
    /\ revenue_by_segment = NoTable
    /\ binary_comparison = NoTable
    /\ analysis_date = NaT
    /\ rfm_summary = {}
    /\ monthly_trend = NoTable
    /\ files = NoFiles
    /\ error = ""
    /\ df_with_first = NoTable
    /\ arg = [kind |-> "none"]
    /\ ret = [status |-> "pending"]
    /\ customer_data = NotLoaded
    /\ RunIdle
    /\ CleanIdle
    /\ MainIdle

\* df = pd.read_parquet('cleaned_ecommerce_data.parquet')
Load ==
    /\ pc = "load"
    /\ df' = cleaned_parquet
    /\ pc' = "step1"
    /\ UNCHANGED <<cleaned_parquet, customer_orders, segment_counts,
                   revenue_by_segment, binary_comparison, analysis_date,
                   rfm_summary, monthly_trend, files, error, arg, ret,
                   df_with_first, dashVars, mainVars, cleanVars, runVars>>

Step1 ==
    /\ pc = "step1"
    /\ customer_orders' = GroupByCustomer(df)
    /\ pc' = "step2"
    /\ UNCHANGED <<cleaned_parquet, df, segment_counts, revenue_by_segment,
                   binary_comparison, analysis_date, rfm_summary, monthly_trend,
                   files, error, arg, ret,
                   df_with_first, dashVars, mainVars, cleanVars, runVars>>

Step2 ==
    /\ pc = "step2"
    /\ LET seg == [i \in DOMAIN customer_orders |->
                      classify_customer(customer_orders[i].OrderCount)]
           typ == [i \in DOMAIN customer_orders |->
                      CustomerTypeOf(customer_orders[i].OrderCount)]
           co == AddColumn(AddColumn(customer_orders, "CustomerSegment", seg),
                           "CustomerType", typ)
       IN /\ customer_orders' = co
          /\ segment_counts' = ValueCounts(co, "CustomerSegment", SegmentOrder)
    /\ pc' = "step3"
    /\ UNCHANGED <<cleaned_parquet, df, revenue_by_segment, binary_comparison,
                   analysis_date, rfm_summary, monthly_trend, files, error,
                   arg, ret,
                   df_with_first, dashVars, mainVars, cleanVars, runVars>>

Step3 ==
    /\ pc = "step3"
    /\ revenue_by_segment' = RevenueBySegment(customer_orders)
    /\ pc' = "step4"
    /\ UNCHANGED <<cleaned_parquet, df, customer_orders, segment_counts,
                   binary_comparison, analysis_date, rfm_summary, monthly_trend,
                   files, error, arg, ret,
                   df_with_first, dashVars, mainVars, cleanVars, runVars>>

Step4 ==
    /\ pc = "step4"
    /\ binary_comparison' = BinaryComparison(customer_orders)
    /\ pc' = "step5"
    /\ UNCHANGED <<cleaned_parquet, df, customer_orders, segment_counts,
                   revenue_by_segment, analysis_date, rfm_summary, monthly_trend,
                   files, error, arg, ret,
                   df_with_first, dashVars, mainVars, cleanVars, runVars>>

Step5 ==
    /\ pc = "step5"
    /\ customer_orders' =
          AddColumn(customer_orders, "CustomerLifetime_Days",
                    [i \in DOMAIN customer_orders |->
                        WholeDays(customer_orders[i].LastPurchase
                                  - customer_orders[i].FirstPurchase)])
    /\ pc' = "step6"
    /\ UNCHANGED <<cleaned_parquet, df, segment_counts, revenue_by_segment,
                   binary_comparison, analysis_date, rfm_summary, monthly_trend,
                   files, error, arg, ret,
                   df_with_first, dashVars, mainVars, cleanVars, runVars>>

\* the table with Recency_Days, as it stands when the first qcut runs
WithRecency(co, date) ==
    AddColumn(co, "Recency_Days",
              [i \in DOMAIN co |-> WholeDays(date - co[i].LastPurchase)])

\* the columns Step 6 adds when none of its three qcut calls raises
WithScores(co) ==
    LET r == ScoreColumn(Column(co, "Recency_Days"), RecencyLabels)
        f == ScoreColumn(Column(co, "OrderCount"), AscendingLabels)
        m == ScoreColumn(Column(co, "TotalRevenue"), AscendingLabels)
        scored == AddColumn(AddColumn(AddColumn(co, "R_Score", r), "F_Score", f),
                            "M_Score", m)
        coded == AddColumn(scored, "RFM_Score",
                     [i \in DOMAIN co |-> <<r[i], f[i], m[i]>>])
    IN AddColumn(coded, "RFM_Segment",
                 [i \in DOMAIN co |-> categorize_rfm(coded[i])])

Step6Raises(co) ==
    \/ QcutRaises(RankFirst(Column(co, "Recency_Days")))
    \/ QcutRaises(RankFirst(Column(co, "OrderCount")))
    \/ QcutRaises(RankFirst(Column(co, "TotalRevenue")))

Step6 ==
    /\ pc = "step6"
    /\ analysis_date' = MaxInvoiceDate(df)
    /\ LET co == WithRecency(customer_orders, MaxInvoiceDate(df))
       IN IF Step6Raises(co)
          THEN /\ customer_orders' = co
               /\ error' = BinEdgesError
               /\ pc' = "failed"
               /\ UNCHANGED rfm_summary
          ELSE /\ customer_orders' = WithScores(co)
               /\ rfm_summary' = RfmSummary(WithScores(co))
               /\ pc' = "step7"
               /\ UNCHANGED error
    /\ UNCHANGED <<cleaned_parquet, df, segment_counts, revenue_by_segment,
                   binary_comparison, monthly_trend, files, arg, ret,
                   df_with_first, dashVars, mainVars, cleanVars, runVars>>

\* the export converting the purchase timestamps in customer_orders itself
Step7InPlace ==
    /\ pc = "step7"
    /\ customer_orders' = CustomerOrdersExport(customer_orders)
    /\ files' = files
          @@ ("customer_segmentation_analysis.csv" :> CustomerOrdersExport(customer_orders))
          @@ ("segment_summary.csv" :> SegmentSummary(segment_counts, customer_orders))
          @@ ("onetime_vs_repeat_summary.csv" :> binary_comparison)
          @@ ("rfm_customer_segmentation.csv" :> RfmExport(customer_orders))
    /\ pc' = "step8"
    /\ UNCHANGED <<cleaned_parquet, df, segment_counts,
                   revenue_by_segment, binary_comparison, analysis_date,
                   rfm_summary, monthly_trend, error, arg, ret,
                   df_with_first, dashVars, mainVars, cleanVars, runVars>>

Step7 ==
    /\ pc = "step7"
    /\ files' = files
          @@ ("customer_segmentation_analysis.csv" :> CustomerOrdersExport(customer_orders))
          @@ ("segment_summary.csv" :> SegmentSummary(segment_counts, customer_orders))
          @@ ("onetime_vs_repeat_summary.csv" :> binary_comparison)
          @@ ("rfm_customer_segmentation.csv" :> RfmExport(customer_orders))
    /\ pc' = "step8"
    /\ UNCHANGED <<cleaned_parquet, df, customer_orders, segment_counts,
                   revenue_by_segment, binary_comparison, analysis_date,
                   rfm_summary, monthly_trend, error, arg, ret,
                   df_with_first, dashVars, mainVars, cleanVars, runVars>>

Step8 ==
    /\ pc = "step8"
    /\ df_with_first' = DfWithFirst(df)
    /\ monthly_trend' = MonthlyTrend(df)
    /\ files' = files
          @@ ("monthly_new_vs_repeat_trend.csv" :> MonthlyPivot(MonthlyTrend(df)))
    /\ pc' = "step9"
    /\ UNCHANGED <<cleaned_parquet, df, customer_orders, segment_counts,
                   revenue_by_segment, binary_comparison, analysis_date,
                   rfm_summary, error, arg, ret, dashVars, mainVars, cleanVars, runVars>>

Step9 ==
    /\ pc = "step9"
    /\ files' = files
          @@ ("repeat_buyers_summary_metrics.csv" :> SummaryMetrics(customer_orders))
    /\ pc' = "done"
    /\ UNCHANGED <<cleaned_parquet, df, customer_orders, segment_counts,
                   revenue_by_segment, binary_comparison, analysis_date,
                   rfm_summary, monthly_trend, error, arg, ret,
                   df_with_first, dashVars, mainVars, cleanVars, runVars>>

-----------------------------------------------------------------------------
(* CSV files: DataFrame.to_csv writes every cell as text, pd.read_csv      *)
(* infers each column's dtype from the text alone.  A cell of text is      *)
(* [syntax, body]: syntax is the lexical class of the characters           *)
(* ("digits", "decimal", "date", "text", "empty"), body what they spell.   *)
(* `files` keeps the frame handed to to_csv; its text is ToCsv of it.      *)

\* dtype of the columns of the frames the script writes
Dtype(name) ==
    CASE name \in {"Customer_ID", "OrderCount", "TotalTransactions",
                   "CustomerLifetime_Days", "Recency_Days", "CustomerCount"} -> "int64"
      [] name \in {"TotalRevenue", "AvgTransactionValue", "CustomerPct",
                   "RevenuePct"} -> "float64"
      [] name \in {"R_Score", "F_Score", "M_Score"} -> "category"
      [] name \in {"FirstPurchase", "LastPurchase"} -> "date"
      [] OTHER -> "object"

\* str(n): the decimal digits of a non-negative integer
RECURSIVE Digits(_)
Digits(n) == IF n < 10 THEN <<n>> ELSE Append(Digits(n \div 10), n % 10)

\* the integer a run of digits spells
RECURSIVE ParseInt(_)
ParseInt(d) ==
    IF Len(d) = 1 THEN d[1]
    ELSE 10 * ParseInt(SubSeq(d, 1, Len(d) - 1)) + d[Len(d)]

\* to_csv of one cell.  Integers and integer categories are written as their
\* digits, floats as the shortest decimal that reads back as the same float,
\* dates in ISO form, strings as they are: the RFM_Score string consists of
\* the three score digits, NaN is written as the empty string
FormatCell(name, v) ==
    CASE Dtype(name) \in {"int64", "category"} -> [syntax |-> "digits", body |-> Digits(v)]
      [] Dtype(name) = "float64" -> [syntax |-> "decimal", body |-> v]
      [] Dtype(name) = "date" -> [syntax |-> "date", body |-> v]
      [] name = "RFM_Score" -> [syntax |-> "digits", body |-> v]
      [] OTHER -> [syntax |-> "text", body |-> v]

ToCsv(tbl) ==
    [i \in DOMAIN tbl |-> [c \in DOMAIN tbl[i] |-> FormatCell(c, tbl[i][c])]]

\* read_csv's type inference for one column of text
InferDtype(cells) ==
    IF cells = <<>> THEN "object"
    ELSE IF \A i \in DOMAIN cells : cells[i].syntax = "digits" THEN "int64"
    ELSE IF \A i \in DOMAIN cells : cells[i].syntax \in {"digits", "decimal", "empty"}
         THEN "float64"
    ELSE "object"

\* the value of one cell under the inferred dtype; an object column keeps
\* the text: a label is its string, a date stays the text of the date
ParseCell(dtype, cell) ==
    CASE dtype = "int64" -> ParseInt(cell.body)
      [] dtype = "float64" /\ cell.syntax = "digits" -> ParseInt(cell.body)
      [] dtype = "float64" /\ cell.syntax = "empty" -> NaT
      [] dtype = "float64" /\ cell.syntax = "decimal" -> cell.body
      [] dtype = "object" /\ cell.syntax = "date" -> [iso |-> cell.body]
      [] OTHER -> cell.body

\* pd.read_csv(name): the frame with its inferred dtypes
ReadCsv(csv) ==
    LET cols == IF csv = <<>> THEN {} ELSE DOMAIN csv[1]
        dtypes == [c \in cols |-> InferDtype([i \in DOMAIN csv |-> csv[i][c]])]
    IN [dtypes |-> dtypes,
        rows   |-> [i \in DOMAIN csv |->
                       [c \in cols |-> ParseCell(dtypes[c], csv[i][c])]]]

\* monthly_pivot.to_csv: one line per month, one cell per (value, buyer type)
\* column, named value_type once the loader has flattened the two header
\* rows.  The counts are written as integers unless the pivot left a hole in
\* their column, which makes the column float
PivotToCsv(pivot) ==
    LET hole(k) == \E j \in DOMAIN pivot : pivot[j].cells[k] = NaT
        text(k, v) ==
            IF v = NaT THEN [syntax |-> "empty", body |-> NaT]
            ELSE IF k[1] = "Revenue" \/ hole(k) THEN [syntax |-> "decimal", body |-> v]
            ELSE [syntax |-> "digits", body |-> Digits(v)]
    IN [i \in DOMAIN pivot |->
          LET keys == DOMAIN pivot[i].cells
              flat(k) == k[1] \o "_" \o k[2]
          IN [c \in {"YearMonth"} \cup {flat(k) : k \in keys} |->
                IF c = "YearMonth"
                THEN [syntax |-> "text", body |-> pivot[i].YearMonth]
                ELSE LET k == CHOOSE kk \in keys : flat(kk) = c
                     IN text(k, pivot[i].cells[k])]]

-----------------------------------------------------------------------------
(* The dashboard's loader of the segmentation files *)

CustomerDataFiles ==
    <<"customer_segmentation_analysis.csv", "segment_summary.csv",
      "rfm_customer_segmentation.csv", "monthly_new_vs_repeat_trend.csv">>

None == [none |-> TRUE]

\* the names main gives to the four values a loader returns
CustomerDataNames == <<"customers", "segment_summary", "rfm", "monthly_trend">>
CohortDataNames == <<"retention", "customer_count", "revenue", "ltv">>

\* a loader that keeps the tables it read before the file that failed
LoadCustomerDataPartial(fs) ==
    LET failed == {k \in DOMAIN CustomerDataFiles :
                      \E j \in 1..k : CustomerDataFiles[j] \notin DOMAIN fs}
        read(k, text) == IF k \in failed THEN None ELSE ReadCsv(text)
    IN [status          |-> IF failed = {} THEN "loaded" ELSE "error",
        nones           |-> {CustomerDataNames[k] : k \in failed},
        customers       |-> IF 1 \in failed THEN None
                            ELSE ReadCsv(ToCsv(fs[CustomerDataFiles[1]])),
        segment_summary |-> IF 2 \in failed THEN None
                            ELSE ReadCsv(ToCsv(fs[CustomerDataFiles[2]])),
        rfm             |-> IF 3 \in failed THEN None
                            ELSE ReadCsv(ToCsv(fs[CustomerDataFiles[3]])),
        monthly_trend   |-> IF 4 \in failed THEN None
                            ELSE ReadCsv(PivotToCsv(fs[CustomerDataFiles[4]]))]

\* what load_customer_data returns with the files fs on disk: any file that
\* cannot be read makes it return None four times. nones names the values
\* that are None.
LoadCustomerData(fs) ==
    IF \A k \in DOMAIN CustomerDataFiles : CustomerDataFiles[k] \in DOMAIN fs
    THEN [status          |-> "loaded",
          nones           |-> {},
          customers       |-> ReadCsv(ToCsv(fs[CustomerDataFiles[1]])),
          segment_summary |-> ReadCsv(ToCsv(fs[CustomerDataFiles[2]])),
          rfm             |-> ReadCsv(ToCsv(fs[CustomerDataFiles[3]])),
          monthly_trend   |-> ReadCsv(PivotToCsv(fs[CustomerDataFiles[4]]))]
    ELSE [status          |-> "error",
          nones           |-> Range(CustomerDataNames),
          customers       |-> None,
          segment_summary |-> None,
          rfm             |-> None,
          monthly_trend   |-> None]

\* load_customer_data(), called on its own once the analysis script has
\* ended, or by main after load_cohort_data; the except branch shows the
\* loader's error
load_customer_data ==
    /\ \/ dash_pc = "idle" /\ pc \in {"done", "failed"} /\ customer_data = NotLoaded
       \/ dash_pc = "load_customer"
    /\ customer_data' = LoadCustomerData(files)
    /\ shown' = IF LoadCustomerData(files).status = "error"
                THEN Append(shown, <<"error", "Error loading customer data">>)
                ELSE shown
    /\ dash_pc' = IF dash_pc = "idle" THEN "idle" ELSE "route"
    /\ UNCHANGED <<scriptVars, fnVars, runVars, cleanVars,
                   page, cohort_files, cohort_data>>

Next ==
    \/ Load
    \/ Step1
    \/ Step2
    \/ Step3
    \/ Step4
    \/ Step5
    \/ Step6
    \/ Step7
    \/ Step8
    \/ Step9
    \/ load_customer_data

Spec == Init /\ [][Next]_vars

-----------------------------------------------------------------------------
(* The dashboard's main, run while or after the analysis script writes *)

Pages ==
    {"Overview", "Cohort Analysis", "Customer Segmentation", "RFM Analysis",
     "Revenue Deep Dive"}

CohortDataFiles ==
    <<"cohort_retention_matrix.csv", "cohort_customer_count.csv",
      "cohort_revenue_matrix.csv", "cohort_ltv_analysis.csv">>

\* the cleaned tables of the dashboard runs: one or two customers with one
\* line each (the analysis script fails on one customer and writes no file)
DashTables == {t \in WideTables : Len(t) <= 2}

InitDash ==
    /\ pc = "load"
    /\ cleaned_parquet \in DashTables
    /\ df = NoTable
    /\ customer_orders = NoTable
    /\ segment_counts = NoTable
    /\ revenue_by_segment = NoTable
    /\ binary_comparison = NoTable
    /\ analysis_date = NaT
    /\ rfm_summary = {}
    /\ monthly_trend = NoTable
    /\ files = NoFiles
    /\ error = ""
    /\ df_with_first = NoTable
    /\ arg = [kind |-> "none"]
    /\ ret = [status |-> "pending"]
    /\ customer_data = NotLoaded
    /\ RunIdle
    /\ CleanIdle
    /\ dash_pc = "start"
    /\ page = ""
    /\ cohort_files \in SUBSET Range(CohortDataFiles)
    /\ cohort_data = NotLoaded
    /\ shown = <<>>

\* the title and the sidebar: the user selects one of the five pages
SelectPage ==
    /\ dash_pc = "start"
    /\ page' \in Pages
    /\ shown' = Append(shown, <<"title">>)
    /\ dash_pc' = "load_cohort"
    /\ UNCHANGED <<scriptVars, fnVars, runVars, cleanVars, dashVars,
                   cohort_files, cohort_data>>

\* what load_cohort_data returns with the cohort files cf readable: the
\* four tables (their content is the cohort script's), or None four times
LoadCohortData(cf) ==
    IF Range(CohortDataFiles) \subseteq cf
    THEN [status         |-> "loaded",
          nones          |-> {},
          retention      |-> <<"read_csv", CohortDataFiles[1]>>,
          customer_count |-> <<"read_csv", CohortDataFiles[2]>>,
          revenue        |-> <<"read_csv", CohortDataFiles[3]>>,
          ltv            |-> <<"read_csv", CohortDataFiles[4]>>]
    ELSE [status         |-> "error",
          nones          |-> Range(CohortDataNames),
          retention      |-> None,
          customer_count |-> None,
          revenue        |-> None,
          ltv            |-> None]

load_cohort_data ==
    /\ dash_pc = "load_cohort"
    /\ cohort_data' = LoadCohortData(cohort_files)
    /\ shown' = IF LoadCohortData(cohort_files).status = "error"
                THEN Append(shown, <<"error", "Error loading cohort data">>)
                ELSE shown
    /\ dash_pc' = "load_customer"
    /\ UNCHANGED <<scriptVars, fnVars, runVars, cleanVars, dashVars,
                   page, cohort_files>>

RunScriptsFirst ==
    "Please run the analysis scripts first to generate the required data files."

\* if retention is None or customers is None: the error, and return;
\* otherwise the if / elif chain calls the show function of the page
RoutePage ==
    /\ dash_pc = "route"
    /\ shown' = IF \/ "retention" \in cohort_data.nones
                   \/ "customers" \in customer_data.nones
                THEN Append(shown, <<"error", RunScriptsFirst>>)
                ELSE Append(shown, <<"page", page>>)
    /\ dash_pc' = "done"
    /\ UNCHANGED <<scriptVars, fnVars, runVars, cleanVars, dashVars,
                   page, cohort_files, cohort_data>>

NextDash ==
    \/ Load
    \/ Step1
    \/ Step2
    \/ Step3
    \/ Step4
    \/ Step5
    \/ Step6
    \/ Step7
    \/ Step8
    \/ Step9
    \/ SelectPage
    \/ load_cohort_data
    \/ load_customer_data
    \/ RoutePage

SpecDash == InitDash /\ [][NextDash]_vars

-----------------------------------------------------------------------------
(* The script's functions on their own *)

\* the ten order counts of the binary-classification scenario
ScenarioOrderCounts == <<1, 1, 2, 3, 4, 6, 7, 11, 12, 15>>

OrderCountColumns ==
    {ScenarioOrderCounts} \cup UNION {[1..n -> 1..MaxOrderCount] : n \in 1..2}

ScoreRows == [R_Score : 1..Q, F_Score : 1..Q, M_Score : 1..Q]

ScoredColumns == UNION {[1..n -> ColumnValues] : n \in 0..MaxPop}

FnInputs ==
    {[kind |-> "orders", OrderCount |-> s] : s \in OrderCountColumns}
    \cup {[kind |-> "scores", row |-> r] : r \in ScoreRows}
    \cup {[kind |-> "column", labels |-> l, x |-> s] :
             l \in {RecencyLabels, AscendingLabels}, s \in ScoredColumns}

InitFn ==
    /\ pc = "idle"
    /\ cleaned_parquet = NoTable
    /\ df = NoTable
    /\ customer_orders = NoTable
    /\ segment_counts = NoTable
    /\ revenue_by_segment = NoTable
    /\ binary_comparison = NoTable
    /\ analysis_date = NaT
    /\ rfm_summary = {}
    /\ monthly_trend = NoTable
    /\ files = NoFiles
    /\ error = ""
    /\ df_with_first = NoTable
    /\ arg \in FnInputs
    /\ ret = [status |-> "pending"]
    /\ customer_data = NotLoaded
    /\ RunIdle
    /\ CleanIdle
    /\ MainIdle

\* OrderCount.apply(classify_customer) and the CustomerType lambda
ApplySegments ==
    /\ arg.kind = "orders"
    /\ ret.status = "pending"
    /\ ret' = [status          |-> "ok",
               CustomerSegment |-> [i \in DOMAIN arg.OrderCount |->
                                       classify_customer(arg.OrderCount[i])],
               CustomerType    |-> [i \in DOMAIN arg.OrderCount |->
                                       CustomerTypeOf(arg.OrderCount[i])]]
    /\ UNCHANGED <<scriptVars, arg, dashVars, mainVars, cleanVars, runVars>>

\* pd.qcut(column.rank(method='first'), q=5, labels=...)
ApplyScore ==
    /\ arg.kind = "column"
    /\ ret.status = "pending"
    /\ ret' = IF QcutRaises(RankFirst(arg.x))
              THEN [status |-> "raised", error |-> BinEdgesError]
              ELSE [status |-> "ok", score |-> ScoreColumn(arg.x, arg.labels)]
    /\ UNCHANGED <<scriptVars, arg, dashVars, mainVars, cleanVars, runVars>>

ApplyCategorize ==
    /\ arg.kind = "scores"
    /\ ret.status = "pending"
    /\ ret' = [status |-> "ok", RFM_Segment |-> categorize_rfm(arg.row)]
    /\ UNCHANGED <<scriptVars, arg, dashVars, mainVars, cleanVars, runVars>>

NextFn ==
    \/ ApplySegments
    \/ ApplyScore
    \/ ApplyCategorize

SpecFn == InitFn /\ [][NextFn]_vars

-----------------------------------------------------------------------------
(* Steps 1, 2 and 6 on two orderings of one set of transaction rows *)

OrderingCustomers == 1..3
OrderingRows ==
    {Row(c, k, d, k) : c \in OrderingCustomers, k \in InvoicesPerCustomer,
                       d \in WideTimestamps}

\* the tables that hold the rows of S, each once, in any order
Orderings(S) ==
    {t \in [1..Cardinality(S) -> S] : \A i, j \in DOMAIN t : t[i] = t[j] => i = j}

\* the ordering the cleaning stage saves: by customer, then by timestamp
SavedOrdering(S) ==
    CHOOSE t \in Orderings(S) :
        \A i \in 1..(Len(t) - 1) :
            \/ t[i].Customer_ID < t[i + 1].Customer_ID
            \/ /\ t[i].Customer_ID = t[i + 1].Customer_ID
               /\ t[i].InvoiceDate <= t[i + 1].InvoiceDate

\* a set of rows in the saved ordering and in any ordering: two orderings
\* that each give the results of the saved one give the same results
OrderingPairs ==
    UNION {{[kind |-> "orderings", a |-> SavedOrdering(S), b |-> t] :
               t \in Orderings(S)} :
           S \in {T \in SUBSET OrderingRows :
                     Cardinality(T) \in 1..MaxRows}}

InitOrder ==
    /\ pc = "idle"
    /\ cleaned_parquet = NoTable
    /\ df = NoTable
    /\ customer_orders = NoTable
    /\ segment_counts = NoTable
    /\ revenue_by_segment = NoTable
    /\ binary_comparison = NoTable
    /\ analysis_date = NaT
    /\ rfm_summary = {}
    /\ monthly_trend = NoTable
    /\ files = NoFiles
    /\ error = ""
    /\ df_with_first = NoTable
    /\ arg \in OrderingPairs
    /\ ret = [status |-> "pending"]
    /\ customer_data = NotLoaded
    /\ RunIdle
    /\ CleanIdle
    /\ MainIdle

\* Step 1 on each ordering
AggregateBoth ==
    /\ arg.kind = "orderings"
    /\ ret.status = "pending"
    /\ ret' = [status |-> "aggregated",
               a |-> GroupByCustomer(arg.a), b |-> GroupByCustomer(arg.b)]
    /\ UNCHANGED <<scriptVars, arg, dashVars, mainVars, cleanVars, runVars>>

\* Step 2: CustomerSegment and CustomerType
Segmented(co) ==
    AddColumn(AddColumn(co, "CustomerSegment",
                        [i \in DOMAIN co |-> classify_customer(co[i].OrderCount)]),
              "CustomerType",
              [i \in DOMAIN co |-> CustomerTypeOf(co[i].OrderCount)])

SegmentBoth ==
    /\ arg.kind = "orderings"
    /\ ret.status = "aggregated"
    /\ ret' = [status |-> "segmented", a |-> Segmented(ret.a), b |-> Segmented(ret.b)]
    /\ UNCHANGED <<scriptVars, arg, dashVars, mainVars, cleanVars, runVars>>

\* Step 6: recency from the table's last date, then the three scores, or
\* the error of qcut
Scored(t, co) ==
    LET rec == WithRecency(co, MaxInvoiceDate(t))
    IN IF Step6Raises(rec)
       THEN [error |-> BinEdgesError, customer_orders |-> rec]
       ELSE [error |-> "", customer_orders |-> WithScores(rec)]

ScoreBoth ==
    /\ arg.kind = "orderings"
    /\ ret.status = "segmented"
    /\ ret' = [status |-> "scored",
               a |-> Scored(arg.a, ret.a), b |-> Scored(arg.b, ret.b)]
    /\ UNCHANGED <<scriptVars, arg, dashVars, mainVars, cleanVars, runVars>>

NextOrder ==
    \/ AggregateBoth
    \/ SegmentBoth
    \/ ScoreBoth

SpecOrder == InitOrder /\ [][NextOrder]_vars

-----------------------------------------------------------------------------

(* The orchestrator run_all_analysis.py *)

scripts ==
    <<"01_data_cleaning.py", "02_cohort_analysis.py",
      "03_repeat_vs_onetime_buyers.py">>

\* what the user can type at the continue prompt
Answers == {"y", "Y", "n", "N", "yes", ""}

\* the answer compared as typed, without str.lower()
LowerAsTyped(a) == a

\* str.lower() on the answers
Lower(a) == CASE a = "Y" -> "y" [] a = "N" -> "n" [] OTHER -> a

Say(lines) == printed' = printed \o lines

InitRun ==
    /\ pc = "idle"
    /\ cleaned_parquet = NoTable
    /\ df = NoTable
    /\ customer_orders = NoTable
    /\ segment_counts = NoTable
    /\ revenue_by_segment = NoTable
    /\ binary_comparison = NoTable
    /\ analysis_date = NaT
    /\ rfm_summary = {}
    /\ df_with_first = NoTable
    /\ monthly_trend = NoTable
    /\ files = NoFiles
    /\ error = ""
    /\ arg = [kind |-> "none"]
    /\ ret = [status |-> "pending"]
    /\ customer_data = NotLoaded
    /\ run_pc = "loop"
    /\ script_index = 0
    /\ results = <<>>
    /\ user_input = ""
    /\ printed = <<>>
    /\ exit_status = NoExit
    /\ CleanIdle
    /\ MainIdle

\* a loop that runs a failed script again when the user continues
StartScriptRetry ==
    /\ run_pc = "loop"
    /\ LET retry == results # <<>> /\ ~results[Len(results)][2]
           n == IF retry THEN script_index ELSE script_index + 1
       IN /\ n <= Len(scripts)
          /\ script_index' = n
          /\ Say(<< <<"banner", scripts[n]>> >>)
    /\ run_pc' = "run_script"
    /\ UNCHANGED <<scriptVars, fnVars, dashVars, mainVars, cleanVars,
                   results, user_input, exit_status>>

\* for i, (script, description) in enumerate(scripts, 1): run_script(...)
\* prints the banner and starts the script as a child process
StartScript ==
    /\ run_pc = "loop"
    /\ script_index < Len(scripts)
    /\ script_index' = script_index + 1
    /\ Say(<< <<"banner", scripts[script_index + 1]>> >>)
    /\ run_pc' = "run_script"
    /\ UNCHANGED <<scriptVars, fnVars, dashVars, mainVars, cleanVars,
                   results, user_input, exit_status>>

\* the child exits with status 0: run_script prints its output and returns
\* True, main records the result and goes on with the loop
ScriptSucceeds ==
    /\ run_pc = "run_script"
    /\ Say(<< <<"stdout", scripts[script_index]>>,
              <<"completed", scripts[script_index]>> >>)
    /\ results' = Append(results, <<scripts[script_index], TRUE>>)
    /\ run_pc' = "loop"
    /\ UNCHANGED <<scriptVars, fnVars, dashVars, mainVars, cleanVars,
                   script_index, user_input, exit_status>>

\* the child exits with another status: CalledProcessError, run_script
\* prints the error and the child's stderr and returns False, main records
\* the result, warns and asks whether to continue
ScriptFails ==
    /\ run_pc = "run_script"
    /\ Say(<< <<"error", scripts[script_index]>>,
              <<"stderr", scripts[script_index]>>,
              <<"warning", scripts[script_index]>> >>)
    /\ results' = Append(results, <<scripts[script_index], FALSE>>)
    /\ run_pc' = "input"
    /\ UNCHANGED <<scriptVars, fnVars, dashVars, mainVars, cleanVars,
                   script_index, user_input, exit_status>>

\* the prompt with continuing as the default: only n / N breaks
AnswerPromptUnlessNo ==
    /\ run_pc = "input"
    /\ \E a \in Answers :
          /\ user_input' = a
          /\ IF Lower(a) = "n"
             THEN /\ Say(<< <<"stopped by user">> >>)
                  /\ run_pc' = "summary"
             ELSE /\ run_pc' = "loop"
                  /\ UNCHANGED printed
    /\ UNCHANGED <<scriptVars, fnVars, dashVars, mainVars, cleanVars,
                   script_index, results, exit_status>>

\* user_input = input(...); anything but y / Y breaks out of the loop
AnswerPrompt ==
    /\ run_pc = "input"
    /\ \E a \in Answers :
          /\ user_input' = a
          /\ IF Lower(a) # "y"
             THEN /\ Say(<< <<"stopped by user">> >>)
                  /\ run_pc' = "summary"
             ELSE /\ run_pc' = "loop"
                  /\ UNCHANGED printed
    /\ UNCHANGED <<scriptVars, fnVars, dashVars, mainVars, cleanVars,
                   script_index, results, exit_status>>

\* a summary that compares the number of scripts run, not the number that
\* succeeded, with len(scripts)
SummaryCountsRuns ==
    /\ \/ run_pc = "summary"
       \/ run_pc = "loop" /\ script_index = Len(scripts)
    /\ LET successful == Cardinality({k \in DOMAIN results : results[k][2]})
       IN Say(<< <<"results", results>>,
                 <<"total", successful, Len(scripts)>>,
                 IF Len(results) = Len(scripts)
                 THEN <<"All analysis completed successfully!">>
                 ELSE <<"Some scripts failed. Please review the error messages above.">> >>)
    /\ exit_status' = 0
    /\ run_pc' = "exited"
    /\ UNCHANGED <<scriptVars, fnVars, dashVars, mainVars, cleanVars,
                   script_index, results, user_input>>

\* the summary after the loop; main returns and the process exits normally
Summary ==
    /\ \/ run_pc = "summary"
       \/ run_pc = "loop" /\ script_index = Len(scripts)
    /\ LET successful == Cardinality({k \in DOMAIN results : results[k][2]})
       IN Say(<< <<"results", results>>,
                 <<"total", successful, Len(scripts)>>,
                 IF successful = Len(scripts)
                 THEN <<"All analysis completed successfully!">>
                 ELSE <<"Some scripts failed. Please review the error messages above.">> >>)
    /\ exit_status' = 0
    /\ run_pc' = "exited"
    /\ UNCHANGED <<scriptVars, fnVars, dashVars, mainVars, cleanVars,
                   script_index, results, user_input>>

\* Ctrl+C while a script runs or while the prompt waits: sys.exit(1)
KeyboardInterrupt ==
    /\ run_pc \in {"run_script", "input"}
    /\ Say(<< <<"Analysis interrupted by user (Ctrl+C)">> >>)
    /\ exit_status' = 1
    /\ run_pc' = "exited"
    /\ UNCHANGED <<scriptVars, fnVars, dashVars, mainVars, cleanVars,
                   script_index, results, user_input>>

\* any other exception, such as the child failing to start or input()
\* raising EOFError on a closed stdin: sys.exit(1)
UnexpectedError ==
    /\ run_pc \in {"run_script", "input"}
    /\ Say(<< <<"Unexpected error">> >>)
    /\ exit_status' = 1
    /\ run_pc' = "exited"
    /\ UNCHANGED <<scriptVars, fnVars, dashVars, mainVars, cleanVars,
                   script_index, results, user_input>>

NextRun ==
    \/ StartScript
    \/ ScriptSucceeds
    \/ ScriptFails
    \/ AnswerPrompt
    \/ Summary
    \/ KeyboardInterrupt
    \/ UnexpectedError

SpecRun == InitRun /\ [][NextRun]_vars

\* The interpreter runs main's statements one after the other, a child
\* process ends (or fails to start, or is interrupted) and input() returns
\* (or raises): no step that can be taken is put off for ever.
SpecRunFair == SpecRun /\ WF_vars(NextRun)

-----------------------------------------------------------------------------
(* The cleaning script 01_data_cleaning.py *)

\* a blank field of the raw file: read_csv gives NaN for it
Blank == ""

\* one line of the raw export; an invoice number is its characters, a
\* missing customer is NaT, quantity in units and price in cents
RawRow(c, inv, q, p, d, desc) ==
    [Customer_ID |-> c, Invoice |-> inv, Quantity |-> q, Price |-> p,
     InvoiceDate |-> d, Description |-> desc]

\* sales that pass every filter
SaleRows ==
    {RawRow(1, <<"1">>, 2, 3, 0, "MUG"), RawRow(1, <<"1">>, 1, 3, 0, "MUG"),
     RawRow(1, <<"2">>, 2, 3, 1, Blank), RawRow(2, <<"3">>, 1, 4, 0, "MUG")}

\* lines one of the filters removes: no customer, a cancellation (with its
\* negative quantity), a cancellation with a positive quantity, quantity
\* zero or negative, price zero or negative
RejectRows ==
    {RawRow(NaT, <<"1">>, 2, 3, 0, "MUG"), RawRow(1, <<"C", "1">>, -2, 3, 1, "MUG"),
     RawRow(2, <<"C", "3">>, 1, 4, 1, "MUG"), RawRow(1, <<"1">>, 0, 3, 0, "MUG"),
     RawRow(1, <<"1">>, -1, 3, 0, "MUG"), RawRow(2, <<"3">>, 1, 0, 0, Blank),
     RawRow(2, <<"3">>, 1, -4, 0, "MUG")}

RawRows == SaleRows \cup RejectRows

RawTables == UNION {[1..n -> RawRows] : n \in 0..MaxRawRows}

\* Invoice.astype(str).str.startswith('C')
StartsWithC(inv) == Len(inv) > 0 /\ inv[1] = "C"

\* the filter keeping zero quantities and prices (>= for >)
ValidQuantityPriceNonNegative(r) == r.Quantity >= 0 /\ r.Price >= 0

\* (Quantity > 0) & (Price > 0)
ValidQuantityPrice(r) == r.Quantity > 0 /\ r.Price > 0

\* the calculated fields of step 3.6
WithCalculatedFields(r) ==
    r @@ [TotalAmount |-> r.Quantity * r.Price,
          Year        |-> PeriodM(r.InvoiceDate) \div 12,
          Month       |-> (PeriodM(r.InvoiceDate) % 12) + 1,
          YearMonth   |-> PeriodM(r.InvoiceDate),
          Date        |-> DateOf(r.InvoiceDate)]

\* drop_duplicates(): of equal rows the first one stays
DropDuplicates(t) ==
    LET keep == SortedSeqOfSet({i \in DOMAIN t : \A j \in 1..(i - 1) : t[j] # t[i]})
    IN [k \in DOMAIN keep |-> t[keep[k]]]

\* sort_values(['Customer ID', 'InvoiceDate']): rows with equal keys keep
\* their order
SortByCustomerAndDate(t) ==
    LET before(a, b) ==
            \/ t[a].Customer_ID < t[b].Customer_ID
            \/ /\ t[a].Customer_ID = t[b].Customer_ID
               /\ \/ t[a].InvoiceDate < t[b].InvoiceDate
                  \/ t[a].InvoiceDate = t[b].InvoiceDate /\ a < b
        place(a) == 1 + Cardinality({b \in DOMAIN t : before(b, a)})
    IN [k \in DOMAIN t |-> t[CHOOSE a \in DOMAIN t : place(a) = k]]

DivisionByZero == "ZeroDivisionError: division by zero"

InitClean ==
    /\ pc = "idle"
    /\ cleaned_parquet = NoTable
    /\ df = NoTable
    /\ customer_orders = NoTable
    /\ segment_counts = NoTable
    /\ revenue_by_segment = NoTable
    /\ binary_comparison = NoTable
    /\ analysis_date = NaT
    /\ rfm_summary = {}
    /\ df_with_first = NoTable
    /\ monthly_trend = NoTable
    /\ files = NoFiles
    /\ error = ""
    /\ arg = [kind |-> "none"]
    /\ ret = [status |-> "pending"]
    /\ customer_data = NotLoaded
    /\ RunIdle
    /\ MainIdle
    /\ clean_pc = "load"
    /\ raw_csv \in RawTables
    /\ df_clean = NoTable

CleanFrame == <<pc, cleaned_parquet, df, customer_orders, segment_counts,
                revenue_by_segment, binary_comparison, analysis_date,
                rfm_summary, df_with_first, monthly_trend, files, error,
                fnVars, dashVars, mainVars, runVars, raw_csv>>

\* df = pd.read_csv(...); df_clean = df.copy()
CleanLoad ==
    /\ clean_pc = "load"
    /\ df_clean' = raw_csv
    /\ clean_pc' = "3.1"
    /\ UNCHANGED CleanFrame

\* 3.1: rows without Customer ID go
Clean3_1 ==
    /\ clean_pc = "3.1"
    /\ df_clean' = SelectSeq(df_clean, LAMBDA r : r.Customer_ID # NaT)
    /\ clean_pc' = "3.2"
    /\ UNCHANGED CleanFrame

\* 3.2: fillna('NO DESCRIPTION')
Clean3_2 ==
    /\ clean_pc = "3.2"
    /\ df_clean' = [i \in DOMAIN df_clean |->
                       IF df_clean[i].Description = Blank
                       THEN [df_clean[i] EXCEPT !.Description = "NO DESCRIPTION"]
                       ELSE df_clean[i]]
    /\ clean_pc' = "3.3"
    /\ UNCHANGED CleanFrame

\* 3.3: cancelled transactions go
Clean3_3 ==
    /\ clean_pc = "3.3"
    /\ df_clean' = SelectSeq(df_clean, LAMBDA r : ~StartsWithC(r.Invoice))
    /\ clean_pc' = "3.4"
    /\ UNCHANGED CleanFrame

\* 3.4: quantities and prices that are not positive go
Clean3_4 ==
    /\ clean_pc = "3.4"
    /\ df_clean' = SelectSeq(df_clean, ValidQuantityPrice)
    /\ clean_pc' = "3.6"
    /\ UNCHANGED CleanFrame

\* 3.5 and 3.6: the type conversions leave the values as they are (customer
\* numbers are whole, dates are already ticks); the calculated fields
Clean3_6 ==
    /\ clean_pc = "3.6"
    /\ df_clean' = [i \in DOMAIN df_clean |-> WithCalculatedFields(df_clean[i])]
    /\ clean_pc' = "3.7"
    /\ UNCHANGED CleanFrame

\* 3.7: duplicates go
Clean3_7 ==
    /\ clean_pc = "3.7"
    /\ df_clean' = DropDuplicates(df_clean)
    /\ clean_pc' = "3.8"
    /\ UNCHANGED CleanFrame

\* 3.8: sort_values and reset_index
Clean3_8 ==
    /\ clean_pc = "3.8"
    /\ df_clean' = SortByCustomerAndDate(df_clean)
    /\ clean_pc' = "summary"
    /\ UNCHANGED CleanFrame

\* Step 4 prints (len(df) - len(df_clean)) / len(df) * 100, which raises for
\* a raw file without rows; Step 5 then writes the csv and the parquet file
CleanSave ==
    /\ clean_pc = "summary"
    /\ IF raw_csv = NoTable
       THEN /\ error' = DivisionByZero
            /\ clean_pc' = "failed"
            /\ UNCHANGED <<files, cleaned_parquet>>
       ELSE /\ files' = files @@ ("cleaned_ecommerce_data.csv" :> df_clean)
            /\ cleaned_parquet' = df_clean
            /\ clean_pc' = "done"
            /\ UNCHANGED error
    /\ UNCHANGED <<pc, df, customer_orders, segment_counts, revenue_by_segment,
                   binary_comparison, analysis_date, rfm_summary, df_with_first,
                   monthly_trend, fnVars, dashVars, mainVars, runVars, raw_csv,
                   df_clean>>

NextClean ==
    \/ CleanLoad
    \/ Clean3_1
    \/ Clean3_2
    \/ Clean3_3
    \/ Clean3_4
    \/ Clean3_6
    \/ Clean3_7
    \/ Clean3_8
    \/ CleanSave

SpecClean == InitClean /\ [][NextClean]_vars

-----------------------------------------------------------------------------
(* Claims *)

\* C1 (SpecFn): every order count n >= 1 gets exactly one of the five
\* segment labels, by the thresholds 1, 2, 3..5, 6..10, above 10; order
\* count 5 is Occasional and order count 6 is Regular.
C1_SegmentThresholds ==
    (arg.kind = "orders" /\ ret.status = "ok") =>
        \A i \in DOMAIN arg.OrderCount :
            LET n == arg.OrderCount[i]
                seg == ret.CustomerSegment[i]
            IN /\ Cardinality({l \in Range(SegmentOrder) : seg = l}) = 1
               /\ (seg = OneTime) <=> (n = 1)
               /\ (seg = TwoTime) <=> (n = 2)
               /\ (seg = Occasional) <=> (3 <= n /\ n <= 5)
               /\ (seg = Regular) <=> (6 <= n /\ n <= 10)
               /\ (seg = Loyal) <=> (n > 10)

C1_Witness ==
    /\ arg.kind = "orders"
    /\ ret.status = "ok"
    /\ arg.OrderCount = <<5, 6>>
    /\ ret.CustomerSegment = <<Occasional, Regular>>

\* C2 (SpecFn): whenever a column is scored, with the recency labels or with
\* the frequency/monetary labels, every score is in 1..5 and the numbers of
\* customers holding each of the five scores differ pairwise by at most one.
C2_ScoresBalanced ==
    (arg.kind = "column" /\ ret.status = "ok") =>
        /\ DOMAIN ret.score = DOMAIN arg.x
        /\ \A i \in DOMAIN ret.score : ret.score[i] \in 1..5
        /\ \A a, b \in 1..5 :
              Cardinality({i \in DOMAIN ret.score : ret.score[i] = a})
                  <= Cardinality({i \in DOMAIN ret.score : ret.score[i] = b}) + 1

C2_Witness ==
    /\ arg.kind = "column"
    /\ ret.status = "ok"
    /\ Len(arg.x) = 7
    /\ arg.labels = RecencyLabels
    /\ \E i, j \in DOMAIN arg.x : arg.x[i] = arg.x[j] /\ ret.score[i] # ret.score[j]
    /\ Cardinality({i \in DOMAIN ret.score : ret.score[i] = 5}) = 2
    /\ Cardinality({i \in DOMAIN ret.score : ret.score[i] = 3}) = 1

C4_Original ==
    pc \in {"step7", "step8", "step9", "done"} =>
        \A i \in DOMAIN customer_orders :
            (/\ customer_orders[i].TotalTransactions = 1
             /\ customer_orders[i].LastPurchase = MaxInvoiceDate(df))
                => customer_orders[i].R_Score = 5

\* C4 as amended (Spec): whenever the recency scores exist, a customer whose
\* only transaction carries the dataset's maximum timestamp has R_Score 5
\* exactly when k, the number of customers with Recency_Days 0 in the rows
\* above it, satisfies 5 * k <= n - 1 for the n customers of the table; the
\* first customer with Recency_Days 0 always has R_Score 5.
C4_RecentCustomerScore ==
    pc \in {"step7", "step8", "step9", "done"} =>
        \A i \in DOMAIN customer_orders :
            (/\ customer_orders[i].TotalTransactions = 1
             /\ customer_orders[i].LastPurchase = MaxInvoiceDate(df))
                => LET k == Cardinality({j \in 1..(i - 1) :
                                            customer_orders[j].Recency_Days = 0})
                   IN /\ (customer_orders[i].R_Score = 5)
                            <=> (5 * k <= Len(customer_orders) - 1)
                      /\ k = 0 => customer_orders[i].R_Score = 5

C4_Witness ==
    /\ pc = "done"
    /\ Len(customer_orders) = 5
    /\ \E i, j \in DOMAIN customer_orders :
          /\ i < j
          /\ customer_orders[i].TotalTransactions = 1
          /\ customer_orders[j].TotalTransactions = 1
          /\ customer_orders[i].LastPurchase = analysis_date
          /\ customer_orders[j].LastPurchase = analysis_date
          /\ customer_orders[i].R_Score = 5
          /\ customer_orders[j].R_Score = 4

\* C5 as claimed (Spec): with 1 to 4 customers the quantile computation does
\* not fail, and no score of the five-bucket computation is put into the
\* customer table or exported.
C5_SmallPopulationHandled ==
    (pc \notin {"load", "step1"} /\ Len(customer_orders) \in 1..4) =>
        /\ error # BinEdgesError
        /\ \A i \in DOMAIN customer_orders : "R_Score" \notin DOMAIN customer_orders[i]
        /\ "rfm_customer_segmentation.csv" \notin DOMAIN files

\* C6 as claimed (Spec): a cleaned table of zero rows stops the run before
\* the customer table is derived: the script never gets past Step 1 with it.
C6_EmptyInputStops ==
    (pc # "load" /\ df = NoTable) => pc \in {"step1", "failed"}

\* C7 (Spec): in the exported segment summary the CustomerCount column sums
\* to the number of customers and the TotalRevenue column sums to the total
\* of the customers' revenues, which is the total of the line totals.
C7_SegmentSummaryTotals ==
    "segment_summary.csv" \in DOMAIN files =>
        LET summary == files["segment_summary.csv"]
        IN /\ SumSeq(Column(summary, "CustomerCount")) = Len(customer_orders)
           /\ SumSeq(Column(summary, "CustomerCount")) = Cardinality(CustomerIds(df))
           /\ SumSeq(Column(summary, "TotalRevenue"))
                 = SumSeq(Column(customer_orders, "TotalRevenue"))
           /\ SumSeq(Column(summary, "TotalRevenue")) = SumSeq(Column(df, "TotalAmount"))

C7_Witness ==
    /\ "segment_summary.csv" \in DOMAIN files
    /\ Len(files["segment_summary.csv"]) = 2
    /\ files["segment_summary.csv"][1].Segment = OneTime
    /\ files["segment_summary.csv"][1].TotalRevenue = 1
    /\ files["segment_summary.csv"][2].Segment = TwoTime
    /\ files["segment_summary.csv"][2].TotalRevenue = 4

\* C8 (SpecFn): the binary CustomerType is One-Time exactly for order count
\* 1 and Repeat for every other order count, whatever the five-bucket
\* segment; the order counts 1, 1, 2, 3, 4, 6, 7, 11, 12, 15 give 2 One-Time
\* and 8 Repeat customers.
C8_BinaryType ==
    (arg.kind = "orders" /\ ret.status = "ok") =>
        /\ \A i \in DOMAIN arg.OrderCount :
              /\ ret.CustomerType[i] \in {OneTime, Repeat}
              /\ (ret.CustomerType[i] = OneTime) <=> (arg.OrderCount[i] = 1)
        /\ arg.OrderCount = ScenarioOrderCounts =>
              /\ Cardinality({i \in DOMAIN ret.CustomerType :
                                 ret.CustomerType[i] = OneTime}) = 2
              /\ Cardinality({i \in DOMAIN ret.CustomerType :
                                 ret.CustomerType[i] = Repeat}) = 8

C8_Witness ==
    /\ arg.kind = "orders"
    /\ ret.status = "ok"
    /\ arg.OrderCount = ScenarioOrderCounts
    /\ ret.CustomerType[3] = Repeat
    /\ ret.CustomerSegment[3] = TwoTime
    /\ ret.CustomerSegment[9] = Loyal

\* C9 (Spec): once derived, the row of a customer with transactions T has
\* OrderCount = the number of distinct invoices in T, TotalRevenue = the sum
\* of the line totals in T, TotalTransactions = |T|, AvgTransactionValue =
\* TotalRevenue / |T|, FirstPurchase = the least and LastPurchase = the
\* greatest timestamp in T.
C9_AggregateContract ==
    pc \notin {"load", "step1"} =>
        \A i \in DOMAIN customer_orders :
            LET row == customer_orders[i]
                T == {j \in DOMAIN df : df[j].Customer_ID = row.Customer_ID}
                amount == [j \in DOMAIN df |-> IF j \in T THEN df[j].TotalAmount ELSE 0]
            IN /\ T # {}
               /\ row.OrderCount = Cardinality({df[j].Invoice : j \in T})
               /\ row.TotalRevenue = SumSeq(amount)
               /\ row.TotalTransactions = Cardinality(T)
               /\ row.AvgTransactionValue.den > 0
               /\ row.AvgTransactionValue.num * Cardinality(T)
                     = row.TotalRevenue * row.AvgTransactionValue.den
               /\ \E j \in T : df[j].InvoiceDate = row.FirstPurchase
               /\ \E j \in T : df[j].InvoiceDate = row.LastPurchase
               /\ \A j \in T : /\ row.FirstPurchase <= df[j].InvoiceDate
                               /\ df[j].InvoiceDate <= row.LastPurchase

C9_Witness ==
    /\ pc = "step2"
    /\ \E i \in DOMAIN customer_orders :
          /\ customer_orders[i].TotalTransactions = 3
          /\ customer_orders[i].OrderCount = 2
          /\ customer_orders[i].TotalRevenue = 5
          /\ customer_orders[i].FirstPurchase < customer_orders[i].LastPurchase

\* C10 (Spec): every row of the customer table has OrderCount >= 1 and
\* FirstPurchase <= LastPurchase.
C10_AggregateInvariant ==
    \A i \in DOMAIN customer_orders :
        /\ customer_orders[i].OrderCount >= 1
        /\ customer_orders[i].FirstPurchase <= customer_orders[i].LastPurchase

C10_Witness ==
    /\ pc = "done"
    /\ \E i, j \in DOMAIN customer_orders :
          /\ customer_orders[i].FirstPurchase < customer_orders[i].LastPurchase
          /\ customer_orders[j].FirstPurchase = customer_orders[j].LastPurchase
          /\ customer_orders[j].OrderCount = 1

\* C11 (Spec): once Step 1 has run, the customer table has exactly one row
\* for each customer identifier that occurs in the transaction table and no
\* row for any other identifier.
C11_OneRowPerCustomer ==
    pc \notin {"load", "step1"} =>
        /\ \A j \in DOMAIN df :
              Cardinality({i \in DOMAIN customer_orders :
                              customer_orders[i].Customer_ID = df[j].Customer_ID}) = 1
        /\ \A i \in DOMAIN customer_orders :
              \E j \in DOMAIN df : df[j].Customer_ID = customer_orders[i].Customer_ID

C11_Witness ==
    /\ pc = "step2"
    /\ Len(df) = 3
    /\ Len(customer_orders) = 2
    /\ df[1].Customer_ID = 1
    /\ df[2].Customer_ID = 1
    /\ df[3].Customer_ID = 2
    /\ customer_orders[1].Customer_ID = 1
    /\ customer_orders[2].Customer_ID = 2

\* C12 (Spec): whenever the scores exist they follow the values. A customer
\* with strictly fewer recency days never has a lower R_Score, one with
\* strictly more orders never has a lower F_Score, and one with strictly
\* more revenue never has a lower M_Score.
C12_ScoreMonotone ==
    pc \in {"step7", "step8", "step9", "done"} =>
        \A a, b \in DOMAIN customer_orders :
            LET A == customer_orders[a]
                B == customer_orders[b]
            IN /\ A.Recency_Days < B.Recency_Days => A.R_Score >= B.R_Score
               /\ A.OrderCount > B.OrderCount => A.F_Score >= B.F_Score
               /\ A.TotalRevenue > B.TotalRevenue => A.M_Score >= B.M_Score

C12_Witness ==
    /\ pc = "step7"
    /\ Len(customer_orders) = 5
    /\ \E a, b \in DOMAIN customer_orders :
          /\ customer_orders[a].Recency_Days < customer_orders[b].Recency_Days
          /\ customer_orders[a].R_Score = 5
          /\ customer_orders[b].R_Score = 1
          /\ customer_orders[a].TotalRevenue > customer_orders[b].TotalRevenue
          /\ customer_orders[a].M_Score = 5
          /\ customer_orders[b].M_Score = 1
    /\ \E a, b \in DOMAIN customer_orders :
          /\ customer_orders[a].TotalRevenue > customer_orders[b].TotalRevenue
          /\ customer_orders[a].M_Score = 4
          /\ customer_orders[b].M_Score = 2

\* C13 (Spec): once Step 6 has run on a table with transactions, the analysis
\* date is the greatest transaction timestamp of the table, each customer's
\* Recency_Days is the number of whole days from the last purchase to the
\* analysis date, it is never negative, and it is 0 for some customer.
C13_AnalysisDateAndRecency ==
    (pc \in {"step7", "step8", "step9", "done", "failed"} /\ df # NoTable) =>
        /\ \E j \in DOMAIN df : df[j].InvoiceDate = analysis_date
        /\ \A j \in DOMAIN df : df[j].InvoiceDate <= analysis_date
        /\ \A i \in DOMAIN customer_orders :
              LET days == customer_orders[i].Recency_Days
                  span == analysis_date - customer_orders[i].LastPurchase
              IN /\ days >= 0
                 /\ days * TicksPerDay <= span
                 /\ span < (days + 1) * TicksPerDay
        /\ \E i \in DOMAIN customer_orders : customer_orders[i].Recency_Days = 0

C13_Witness ==
    /\ pc = "done"
    /\ analysis_date = 5
    /\ \E i, j \in DOMAIN customer_orders :
          /\ customer_orders[i].LastPurchase = 0
          /\ customer_orders[i].Recency_Days = 2
          /\ customer_orders[j].LastPurchase = 5
          /\ customer_orders[j].Recency_Days = 0

\* C14 (Spec): once Step 8 has run, every transaction is classified New
\* exactly when its timestamp is the earliest timestamp of its customer and
\* Repeat otherwise; so all transactions at a customer's earliest timestamp
\* are New and every customer has a New transaction.
C14_NewIffFirstTimestamp ==
    pc \in {"step9", "done"} =>
        /\ Len(df_with_first) = Len(df)
        /\ \A i \in DOMAIN df :
              LET earliest == \A j \in DOMAIN df :
                                  df[j].Customer_ID = df[i].Customer_ID
                                      => df[i].InvoiceDate <= df[j].InvoiceDate
              IN /\ df_with_first[i].Customer_ID = df[i].Customer_ID
                 /\ df_with_first[i].Invoice = df[i].Invoice
                 /\ df_with_first[i].InvoiceDate = df[i].InvoiceDate
                 /\ df_with_first[i].BuyerType \in {NewCustomer, RepeatCustomer}
                 /\ (df_with_first[i].BuyerType = NewCustomer) <=> earliest
        /\ \A i \in DOMAIN df :
              \E j \in DOMAIN df :
                  /\ df_with_first[j].Customer_ID = df[i].Customer_ID
                  /\ df_with_first[j].BuyerType = NewCustomer

C14_Witness ==
    /\ pc = "done"
    /\ Len(df_with_first) = 3
    /\ df_with_first[1].Customer_ID = 1
    /\ df_with_first[2].Customer_ID = 1
    /\ df_with_first[3].Customer_ID = 2
    /\ df_with_first[1].InvoiceDate = 1
    /\ df_with_first[2].InvoiceDate = 1
    /\ df_with_first[3].InvoiceDate = 0
    /\ df_with_first[1].Invoice # df_with_first[2].Invoice
    /\ \A i \in 1..3 : df_with_first[i].BuyerType = NewCustomer

\* C15 (Spec): once Step 8 has run, the monthly trend table has exactly one
\* row for each (calendar month, buyer type) pair that has a transaction and
\* no other row, and each row carries the number of distinct customers, the
\* sum of the line totals and the number of distinct invoices of the
\* transactions of its month and buyer type.
C15_MonthlyTrendRows ==
    pc \in {"step9", "done"} =>
        LET group(m, b) == {i \in DOMAIN df_with_first :
                               /\ df_with_first[i].BuyerType = b
                               /\ m * TicksPerDay * DaysPerMonth <= df_with_first[i].InvoiceDate
                               /\ df_with_first[i].InvoiceDate < (m + 1) * TicksPerDay * DaysPerMonth}
        IN /\ \A k, l \in DOMAIN monthly_trend :
                 (/\ monthly_trend[k].YearMonth = monthly_trend[l].YearMonth
                  /\ monthly_trend[k].BuyerType = monthly_trend[l].BuyerType) => k = l
           /\ \A i \in DOMAIN df_with_first :
                 \E k \in DOMAIN monthly_trend :
                     i \in group(monthly_trend[k].YearMonth, monthly_trend[k].BuyerType)
           /\ \A k \in DOMAIN monthly_trend :
                 LET G == group(monthly_trend[k].YearMonth, monthly_trend[k].BuyerType)
                 IN /\ G # {}
                    /\ monthly_trend[k].UniqueCustomers
                          = Cardinality({df_with_first[i].Customer_ID : i \in G})
                    /\ monthly_trend[k].Revenue
                          = SumSeq([i \in DOMAIN df_with_first |->
                                       IF i \in G THEN df_with_first[i].TotalAmount ELSE 0])
                    /\ monthly_trend[k].Orders
                          = Cardinality({df_with_first[i].Invoice : i \in G})

C15_Witness ==
    /\ pc = "done"
    /\ Len(df) = 3
    /\ Len(monthly_trend) = 3
    /\ monthly_trend[1] = [YearMonth |-> 0, BuyerType |-> NewCustomer,
                           UniqueCustomers |-> 1, Revenue |-> 1, Orders |-> 1]
    /\ monthly_trend[2] = [YearMonth |-> 1, BuyerType |-> NewCustomer,
                           UniqueCustomers |-> 1, Revenue |-> 2, Orders |-> 1]
    /\ monthly_trend[3] = [YearMonth |-> 1, BuyerType |-> RepeatCustomer,
                           UniqueCustomers |-> 1, Revenue |-> 1, Orders |-> 1]

\* C16 as claimed (Spec): for every population of five or more customers
\* that the run carries to its end, the binary summary table and its file
\* have exactly two rows, the first for One-Time and the second for Repeat
\* customers.
C16_BinaryTwoRows ==
    (pc = "done" /\ Len(customer_orders) >= Q) =>
        /\ Len(binary_comparison) = 2
        /\ binary_comparison[1].CustomerType = OneTime
        /\ binary_comparison[2].CustomerType = Repeat
        /\ files["onetime_vs_repeat_summary.csv"] = binary_comparison

\* whether a value of the frame in memory and a value of the frame read back
\* are equal in Python: a number never equals a string
SameValue(column, before, dtype, after) ==
    /\ (Dtype(column) \in {"int64", "float64", "category"})
          <=> (dtype \in {"int64", "float64"})
    /\ before = after

\* the columns C17 says come back unchanged
C17_Columns ==
    {"OrderCount", "TotalRevenue", "AvgTransactionValue", "TotalTransactions",
     "CustomerSegment", "CustomerType", "RFM_Segment",
     "R_Score", "F_Score", "M_Score"}

AggregateColumns ==
    {"Customer_ID", "OrderCount", "FirstPurchase", "LastPurchase",
     "TotalRevenue", "AvgTransactionValue", "TotalTransactions"}

Aggregates(co) == [i \in DOMAIN co |-> [c \in AggregateColumns |-> co[i][c]]]

\* C18 (Spec): no step after Step 1, and no load by the dashboard, changes
\* the rows of the customer table or any of their OrderCount, FirstPurchase,
\* LastPurchase, TotalRevenue, AvgTransactionValue and TotalTransactions;
\* the export writes dates to its file and leaves the table's timestamps.
C18_AggregatesFrozen ==
    [][pc \notin {"load", "step1"}
          => Aggregates(customer_orders') = Aggregates(customer_orders)]_vars

C18_Witness ==
    /\ pc = "done"
    /\ customer_data.status = "loaded"
    /\ Len(customer_orders) = 2
    /\ customer_orders[1].FirstPurchase = 1
    /\ customer_orders[1].LastPurchase = 5
    /\ files["customer_segmentation_analysis.csv"][1].FirstPurchase = 0
    /\ files["customer_segmentation_analysis.csv"][1].LastPurchase = 2
    /\ "RFM_Segment" \in DOMAIN customer_orders[1]
    /\ Aggregates(customer_orders) = Aggregates(GroupByCustomer(df))

\* C19 as claimed (SpecRun): no stage script runs once a stage script of the
\* run has failed.
C19_Original ==
    run_pc = "run_script" => \A k \in DOMAIN results : results[k][2]

\* C19 as amended (SpecRun): when a stage script was started after the last
\* failed one, the answer given at the continue prompt is y or Y; after any
\* other answer no stage script is started.
C19_ContinueOnlyOnYes ==
    LET failed == {k \in DOMAIN results : ~results[k][2]}
    IN (/\ failed # {}
        /\ \/ run_pc = "run_script"
           \/ \E k \in DOMAIN results : \A f \in failed : f < k)
          => user_input \in {"y", "Y"}

C19_Witness ==
    /\ run_pc = "run_script"
    /\ script_index = 2
    /\ results = << <<"01_data_cleaning.py", FALSE>> >>
    /\ user_input = "Y"
    /\ printed[Len(printed)] = <<"banner", "02_cohort_analysis.py">>

\* C20 as claimed (SpecRun): a run in which a stage script failed ends with
\* a failure exit status, after the failed script's error output was printed.
C20_FailureSurfaces ==
    (run_pc = "exited" /\ \E k \in DOMAIN results : ~results[k][2]) =>
        /\ exit_status # 0
        /\ \A k \in DOMAIN results :
              ~results[k][2] =>
                  \E n \in DOMAIN printed : printed[n] = <<"stderr", results[k][1]>>

\* C21 (SpecClean): every row the cleaning script saves has a customer
\* identifier, a quantity above 0, a price above 0 and an invoice number
\* that does not begin with C, so its line total, quantity times price, is
\* above 0; and no two saved rows are identical.
C21_CleanedRows ==
    clean_pc = "done" =>
        /\ files["cleaned_ecommerce_data.csv"] = cleaned_parquet
        /\ \A i \in DOMAIN cleaned_parquet :
              LET r == cleaned_parquet[i]
              IN /\ r.Customer_ID # NaT
                 /\ r.Quantity > 0
                 /\ r.Price > 0
                 /\ r.Invoice[1] # "C"
                 /\ r.TotalAmount = r.Quantity * r.Price
                 /\ r.TotalAmount > 0
        /\ \A i, j \in DOMAIN cleaned_parquet :
              cleaned_parquet[i] = cleaned_parquet[j] => i = j

C21_Witness ==
    /\ clean_pc = "done"
    /\ Len(raw_csv) = 3
    /\ raw_csv[1] = raw_csv[2]
    /\ raw_csv[1].Quantity = 2
    /\ raw_csv[1].Price = 3
    /\ raw_csv[3].Invoice = <<"C", "1">>
    /\ Len(cleaned_parquet) = 1
    /\ cleaned_parquet[1].TotalAmount = 6
    /\ cleaned_parquet[1].Invoice = <<"1">>

\* the scripts whose banner was printed, in the order they were started
Started ==
    LET banners == SelectSeq(printed, LAMBDA line : line[1] = "banner")
    IN [k \in DOMAIN banners |-> banners[k][2]]

\* C22 (SpecRun): the scripts started so far are the first scripts of the
\* list, in the list's order and each one once; every started script but
\* the last has finished and has its result recorded, so at most one script
\* runs at a time, and a script runs only while the count of results is one
\* short of the count of scripts started.
C22_StartedInOrder ==
    /\ Len(Started) = script_index
    /\ Started = SubSeq(scripts, 1, Len(Started))
    /\ \A k \in DOMAIN results : results[k][1] = scripts[k]
    /\ Len(Started) - Len(results) \in {0, 1}
    /\ run_pc = "run_script" <=> Len(results) = Len(Started) - 1 /\ exit_status = NoExit
    /\ run_pc \in {"loop", "input", "summary"} => Len(results) = Len(Started)

C22_Witness ==
    /\ run_pc = "run_script"
    /\ Started = scripts
    /\ results = << <<"01_data_cleaning.py", TRUE>>,
                    <<"02_cohort_analysis.py", FALSE>> >>

\* C23 (SpecRun): the continue prompt comes only after a failed script; on
\* the answer y or Y the loop goes on and the next script of the list, when
\* there is one, is the next thing started; on any other answer the loop
\* ends, and from there the run only prints its summary: no script is
\* started and the results keep their length.
C23_PromptDecides ==
    [][/\ (run_pc = "input" /\ run_pc' # "exited") =>
             /\ ~results[Len(results)][2]
             /\ results' = results /\ script_index' = script_index
             /\ IF user_input' \in {"y", "Y"}
                THEN run_pc' = "loop"
                ELSE run_pc' = "summary"
       /\ (run_pc = "loop" /\ script_index < Len(scripts)) =>
             /\ run_pc' = "run_script"
             /\ script_index' = script_index + 1
             /\ printed' = Append(printed, <<"banner", scripts[script_index + 1]>>)
       /\ run_pc = "summary" =>
             /\ run_pc' = "exited"
             /\ results' = results /\ script_index' = script_index
      ]_vars

C23_Witness ==
    /\ run_pc = "exited"
    /\ exit_status = 0
    /\ user_input = "yes"
    /\ Started = SubSeq(scripts, 1, 2)
    /\ results = << <<"01_data_cleaning.py", FALSE>>,
                    <<"02_cohort_analysis.py", FALSE>> >>

\* the final message of the run, when one was printed
AllCompleted ==
    \E n \in DOMAIN printed :
        printed[n] = <<"All analysis completed successfully!">>

SomeFailed ==
    \E n \in DOMAIN printed :
        printed[n] = <<"Some scripts failed. Please review the error messages above.">>

CountedIn(row) ==
    {df_with_first[i].Customer_ID :
        i \in {j \in DOMAIN df_with_first :
                 /\ df_with_first[j].BuyerType = row.BuyerType
                 /\ row.YearMonth * TicksPerDay * DaysPerMonth
                      <= df_with_first[j].InvoiceDate
                 /\ df_with_first[j].InvoiceDate
                      < (row.YearMonth + 1) * TicksPerDay * DaysPerMonth}}

\* C26 (Spec): once Step 8 has run, every customer of the transaction table
\* is counted in exactly one New Customer row of the monthly trend, the row
\* of the month that holds the customer's earliest transaction, and the
\* UniqueCustomers counts of the New Customer rows add up to the number of
\* customers.
C26_NewOncePerCustomer ==
    pc \in {"step9", "done"} =>
        LET new == {k \in DOMAIN monthly_trend :
                       monthly_trend[k].BuyerType = NewCustomer}
            earliest(c) ==
                CHOOSE d \in {df[i].InvoiceDate : i \in DOMAIN df} :
                    /\ \E i \in DOMAIN df :
                          df[i].Customer_ID = c /\ df[i].InvoiceDate = d
                    /\ \A i \in DOMAIN df :
                          df[i].Customer_ID = c => d <= df[i].InvoiceDate
        IN /\ \A c \in {df[i].Customer_ID : i \in DOMAIN df} :
                 /\ Cardinality({k \in new : c \in CountedIn(monthly_trend[k])}) = 1
                 /\ \A k \in new :
                       c \in CountedIn(monthly_trend[k]) =>
                           /\ monthly_trend[k].YearMonth * TicksPerDay * DaysPerMonth
                                <= earliest(c)
                           /\ earliest(c)
                                < (monthly_trend[k].YearMonth + 1) * TicksPerDay * DaysPerMonth
           /\ \A k \in DOMAIN monthly_trend :
                 monthly_trend[k].UniqueCustomers
                     = Cardinality(CountedIn(monthly_trend[k]))
           /\ SumSeq([k \in DOMAIN monthly_trend |->
                         IF k \in new THEN monthly_trend[k].UniqueCustomers ELSE 0])
                 = Cardinality({df[i].Customer_ID : i \in DOMAIN df})

\* two customers, one of them buying twice in the month of the first
\* purchase: that customer is in the month's New row and in its Repeat row
C26_Witness ==
    /\ pc = "done"
    /\ Len(df) = 3
    /\ Cardinality({df[i].Customer_ID : i \in DOMAIN df}) = 2
    /\ Len(monthly_trend) = 2
    /\ monthly_trend[1].YearMonth = monthly_trend[2].YearMonth
    /\ monthly_trend[1].BuyerType = NewCustomer
    /\ monthly_trend[1].UniqueCustomers = 2
    /\ monthly_trend[2].BuyerType = RepeatCustomer
    /\ monthly_trend[2].UniqueCustomers = 1
    /\ CountedIn(monthly_trend[2]) \subseteq CountedIn(monthly_trend[1])

\* the row of customer c in a customer table
RowOf(co, c) == co[CHOOSE i \in DOMAIN co : co[i].Customer_ID = c]

\* every customer of the rows has one row in each of the two customer
\* tables, and the two rows are equal column by column
SameCustomerRows(x, y) ==
    LET ids == {arg.a[i].Customer_ID : i \in DOMAIN arg.a}
    IN /\ Len(x) = Cardinality(ids)
       /\ Len(y) = Cardinality(ids)
       /\ \A c \in ids :
             /\ \E i \in DOMAIN x : x[i].Customer_ID = c
             /\ \E i \in DOMAIN y : y[i].Customer_ID = c
             /\ RowOf(x, c) = RowOf(y, c)

\* C25 (SpecOrder): for a set of transaction rows in the saved ordering and
\* in any other ordering, every customer has the same aggregates after Step 1, the same segment labels
\* after Step 2 and, after Step 6, the same recency and the same R, F and M
\* scores (or Step 6 fails on both); and of two customers that tie on a
\* scored value the one with the smaller identifier has the lower rank: the
\* lower or equal F and M score, the higher or equal R score.
C25_OrderIndependent ==
    arg.kind = "orderings" =>
        /\ ret.status \in {"aggregated", "segmented"} => SameCustomerRows(ret.a, ret.b)
        /\ ret.status = "scored" =>
              /\ ret.a.error = ret.b.error
              /\ SameCustomerRows(ret.a.customer_orders, ret.b.customer_orders)
              /\ ret.a.error = "" =>
                    \A x \in {ret.a.customer_orders, ret.b.customer_orders} :
                       \A i, j \in DOMAIN x :
                          x[i].Customer_ID < x[j].Customer_ID =>
                             /\ x[i].OrderCount = x[j].OrderCount
                                   => x[i].F_Score <= x[j].F_Score
                             /\ x[i].TotalRevenue = x[j].TotalRevenue
                                   => x[i].M_Score <= x[j].M_Score
                             /\ x[i].Recency_Days = x[j].Recency_Days
                                   => x[i].R_Score >= x[j].R_Score

\* three customers with one identical purchase each, listed 1, 2, 3 in one
\* ordering and 3, 2, 1 in the other
C25_Witness ==
    /\ arg.kind = "orderings"
    /\ ret.status = "scored"
    /\ Len(arg.a) = 3
    /\ \A i \in 1..3 : arg.a[i] = Row(i, 1, 0, 1) /\ arg.b[i] = Row(4 - i, 1, 0, 1)
    /\ ret.a.error = ""
    /\ \A x \in {ret.a.customer_orders, ret.b.customer_orders} :
          /\ x[1].Customer_ID = 1 /\ x[1].F_Score = 1 /\ x[1].R_Score = 5
          /\ x[3].Customer_ID = 3 /\ x[3].F_Score = 5 /\ x[3].R_Score = 1

\* the pages rendered so far
PagesShown(out) == SelectSeq(out, LAMBDA line : line[1] = "page")

\* C27 (SpecDash): a loader returns its four tables when all four of its
\* files can be read and None four times, with its error shown, when any of
\* them cannot; main then shows the run-the-scripts-first error and no page
\* if either loader returned None, and otherwise the selected page and
\* nothing else; no other step of the run renders a page.
C27_LoadersAllOrNothing ==
    [][/\ (dash_pc = "load_cohort" /\ dash_pc' = "load_customer") =>
             IF \A k \in DOMAIN CohortDataFiles : CohortDataFiles[k] \in cohort_files
             THEN cohort_data'.nones = {} /\ shown' = shown
             ELSE /\ cohort_data'.nones = Range(CohortDataNames)
                  /\ shown' = Append(shown, <<"error", "Error loading cohort data">>)
       /\ (dash_pc = "load_customer" /\ dash_pc' = "route") =>
             IF \A k \in DOMAIN CustomerDataFiles : CustomerDataFiles[k] \in DOMAIN files
             THEN customer_data'.nones = {} /\ shown' = shown
             ELSE /\ customer_data'.nones = Range(CustomerDataNames)
                  /\ shown' = Append(shown, <<"error", "Error loading customer data">>)
       /\ (dash_pc = "route" /\ dash_pc' = "done") =>
             IF cohort_data.nones = {} /\ customer_data.nones = {}
             THEN shown' = Append(shown, <<"page", page>>)
             ELSE /\ shown' = Append(shown, <<"error", RunScriptsFirst>>)
                  /\ PagesShown(shown') = <<>>
       /\ ~(dash_pc = "route" /\ dash_pc' = "done") =>
             PagesShown(shown') = PagesShown(shown)
       /\ dash_pc = "done" => shown' = shown /\ dash_pc' = "done"
      ]_vars

\* the dashboard opened between Step 7 and Step 8 of the analysis script:
\* the cohort files are all there, three of the four segmentation files are
\* written and the monthly trend is not
C27_Witness ==
    /\ dash_pc = "done"
    /\ pc = "step8"
    /\ cohort_data.nones = {}
    /\ {CustomerDataFiles[k] : k \in 1..3} \subseteq DOMAIN files
    /\ CustomerDataFiles[4] \notin DOMAIN files
    /\ customer_data.nones = Range(CustomerDataNames)
    /\ page = "RFM Analysis"
    /\ shown = << <<"title">>,
                  <<"error", "Error loading customer data">>,
                  <<"error", RunScriptsFirst>> >>

=============================================================================
